---- MODULE Spec2Model ----
(***************************************************************************)
(* Financial-statement normalizer and valuation engine of Riverlands.      *)
(*                                                                         *)
(* State: the financial_statements table, the latest stock_prices row per  *)
(* ticker, the stock_valuation_cache table, the stocks directory, the      *)
(* return value of the last call (result), a log of the write calls made   *)
(* so far (log, a history variable), the calls the last ingestion made to  *)
(* its collaborators (calls) and the database sessions that are in the     *)
(* middle of an upsert (sessions).                                         *)
(*                                                                         *)
(* Representation.                                                         *)
(*  - Python None / SQL NULL is the empty sequence <<>>, a present value v  *)
(*    is <<v>>.                                                            *)
(*  - A raw upstream value is a record [k, s, n]: k = "none" (None),       *)
(*    k = "str" (a string, s its characters), k = "num" (a Python int n),  *)
(*    k = "obj" (a value of another type).                                 *)
(*  - stac_yymm is a 6-digit string in the program; strings of equal       *)
(*    length compare like the numbers they spell, so a label is modelled   *)
(*    as the number YYYYMM and the empty / missing label as NoLabel.       *)
(*  - float values are kept as exact multiples of 1/Scale.                 *)
(***************************************************************************)
EXTENDS Integers, Sequences, FiniteSets, TLC

VARIABLES financial_statements, stock_prices, stock_valuation_cache, stocks,
          log, result, calls, sessions

vars == <<financial_statements, stock_prices, stock_valuation_cache, stocks,
          log, result, calls, sessions>>

----------------------------------------------------------------------------
(* Bounds *)

\* number of write calls in one behaviour
MaxOps == 3

\* largest limit argument of a screen call and of a refresh-all
MaxLimit == 2

\* number of batch ingestions in one behaviour
MaxBatches == 1

\* number of sessions that are in the middle of an upsert at one time
MaxSessions == 2

----------------------------------------------------------------------------
(* Optional values *)

None == <<>>

Some(v) == <<v>>

\* Python truthiness of an optional number: None and 0 are falsy
Truthy(o) == o # <<>> /\ o[1] # 0

\* Python `x or 0`
OrZero(o) == IF Truthy(o) THEN o[1] ELSE 0

----------------------------------------------------------------------------
(* Raw upstream values *)

RNone == [k |-> "none", s |-> <<>>, n |-> 0]

RStr(s) == [k |-> "str", s |-> s, n |-> 0]

RNum(n) == [k |-> "num", s |-> <<>>, n |-> n]

\* a value of a type float() does not take (a list, a dict)
RObj == [k |-> "obj", s |-> <<>>, n |-> 0]

Digits == {"0", "1", "2", "3", "4", "5", "6", "7", "8", "9"}

DigitVal(c) ==
  CASE c = "0" -> 0 [] c = "1" -> 1 [] c = "2" -> 2 [] c = "3" -> 3
    [] c = "4" -> 4 [] c = "5" -> 5 [] c = "6" -> 6 [] c = "7" -> 7
    [] c = "8" -> 8 [] c = "9" -> 9

\* hundredths: the exact unit in which parsed floats are kept
Scale == 100

\* str.replace(',', '')
RemoveCommas(s) == SelectSeq(s, LAMBDA c : c # ",")

\* str.strip(): drop leading and trailing blanks
Strip(s) ==
  LET nonblank == {i \in 1..Len(s) : s[i] # " "}
  IN  IF nonblank = {} THEN <<>>
      ELSE LET lo == CHOOSE i \in nonblank : \A j \in nonblank : i <= j
               hi == CHOOSE i \in nonblank : \A j \in nonblank : i >= j
           IN  SubSeq(s, lo, hi)

RECURSIVE DigitsVal(_)
\* value of a string of decimal digits
DigitsVal(ds) ==
  IF ds = <<>> THEN 0
  ELSE DigitsVal(SubSeq(ds, 1, Len(ds) - 1)) * 10 + DigitVal(ds[Len(ds)])

\* position of the first "." of a string, one past its end when it has none
first_dot(body) ==
  IF \A i \in 1..Len(body) : body[i] # "." THEN Len(body) + 1
  ELSE CHOOSE i \in 1..Len(body) :
         body[i] = "." /\ \A j \in 1..(i - 1) : body[j] # "."

\* the value of an unsigned literal with integer part ip and fraction part
\* fp: digits only (so no second "."), at least one digit; fraction digits
\* beyond the second are dropped (the strings used here have at most two)
float_of_parts(ip, fp) ==
  IF /\ \A i \in 1..Len(ip) : ip[i] \in Digits
     /\ \A i \in 1..Len(fp) : fp[i] \in Digits
     /\ Len(ip) + Len(fp) >= 1
  THEN [ok |-> TRUE,
        v  |-> DigitsVal(ip) * Scale
               + DigitsVal(SubSeq(fp \o <<"0", "0">>, 1, 2))]
  ELSE [ok |-> FALSE, v |-> 0]

\* an unsigned literal split at position dot
float_of_body(body, dot) ==
  float_of_parts(SubSeq(body, 1, dot - 1), SubSeq(body, dot + 1, Len(body)))

\* the float values that are not finite numbers: inf (-inf is its negation)
\* and nan, kept as values no finite amount of the model reaches
Infinity == 2000000000

NaN == 2000000001

IsInf(v) == v = Infinity \/ v = 0 - Infinity

\* the sign of the literal s applied to the value f of its body
float_signed(s, f) ==
  IF f.ok /\ s[1] = "-" /\ f.v # NaN THEN [ok |-> TRUE, v |-> 0 - f.v]
  ELSE f

\* an unsigned literal: the non-finite words, or digits [. digits]
float_of_text(body) ==
  IF body = <<"i", "n", "f">> THEN [ok |-> TRUE, v |-> Infinity]
  ELSE IF body = <<"n", "a", "n">> THEN [ok |-> TRUE, v |-> NaN]
  ELSE float_of_body(body, first_dot(body))

\* float(s) for a string: [ok |-> FALSE] is ValueError, otherwise v is the
\* value in units of 1/Scale.  Accepted: [sign] digits [. digits], and
\* [sign] inf, [sign] nan.
ParseFloat(s) ==
  IF s # <<>> /\ s[1] \in {"-", "+"}
  THEN float_signed(s, float_of_text(Tail(s)))
  ELSE float_of_text(s)

\* int(x): truncation toward zero of a float kept in units of 1/Scale
IntOfFloat(v) == IF v >= 0 THEN v \div Scale ELSE 0 - ((0 - v) \div Scale)

----------------------------------------------------------------------------
(* Columns of financial_statements kept by the model *)

\* balance sheet: cpfn; income statement: sale_account, bsop_prti,
\* thtr_ntin; ratios: roe_val
bigint_fields == {"cpfn", "sale_account", "bsop_prti", "thtr_ntin"}

decimal_fields == {"roe_val"}

\* mutant: every numeric column is treated as a cumulative flow
cumulative_fields_wide ==
  {"cpfn", "sale_account", "bsop_prti", "thtr_ntin", "roe_val"}

valid_columns == bigint_fields \cup decimal_fields

cumulative_fields == {"sale_account", "bsop_prti", "thtr_ntin"}

\* the outcome of a conversion that raises: int(float("inf")) raises
\* OverflowError, which `except (ValueError, TypeError)` does not catch
OverflowError == <<"raise", "OverflowError">>

\* int(float(value)) inside the try block: ValueError of float() and of
\* int(nan) are caught and give None, OverflowError of int(inf) escapes
int_of_float(f) ==
  IF ~f.ok \/ f.v = NaN THEN None
  ELSE IF IsInf(f.v) THEN OverflowError
  ELSE Some(IntOfFloat(f.v))

\* the try block of _convert_value: f is float(value) ([ok |-> FALSE] when it
\* raises ValueError or TypeError), raw the value itself.  bigint columns hold integers,
\* decimal columns hold multiples of 1/Scale.
convert_number(key, f, raw) ==
  IF key \in bigint_fields
  THEN int_of_float(f)
  ELSE IF key \in decimal_fields
  THEN IF f.ok THEN Some(f.v) ELSE None
  ELSE Some(raw)

\* mutant: without the `if not value: return None` test
convert_text_unchecked(key, str) == convert_number(key, ParseFloat(str), str)

\* a string value after replace(',', '').strip()
convert_text(key, str) ==
  IF str = <<>> THEN None ELSE convert_number(key, ParseFloat(str), str)

\* _convert_value: None, Some(number), or OverflowError when it raises
convert_value(key, value) ==
  IF value.k = "none" THEN None
  ELSE IF value.k = "str"
  THEN convert_text(key, Strip(RemoveCommas(value.s)))
  ELSE IF value.k = "num"
  THEN convert_number(key, [ok |-> TRUE, v |-> value.n * Scale], value.n)
  ELSE convert_number(key, [ok |-> FALSE, v |-> 0], value)

----------------------------------------------------------------------------
(* The financial_statements table: a sequence of rows, a row's id is its  *)
(* position.  The session is created with autoflush=False, so a query     *)
(* sees the rows of the table (with the changes this call made to them)   *)
(* but not the rows added and not yet flushed.                             *)

\* data.get("stac_yymm") of a record without a usable label
NoLabel == 0

stac_yymm_of(data) ==
  IF "stac_yymm" \in DOMAIN data THEN data.stac_yymm ELSE NoLabel

\* the data keys a handler looks at: a column, present, not None
DataKeys(data) ==
  {key \in DOMAIN data \ {"stac_yymm"} :
     key \in valid_columns /\ data[key].k # "none"}

\* db.query(FinancialStatement).filter(ticker, stac_yymm, period_type).first():
\* the id of a matching row, 0 when there is none
query_first(tbl, ticker, stac_yymm, period_type) ==
  LET hits == {i \in 1..Len(tbl) : /\ tbl[i].ticker = ticker
                                    /\ tbl[i].stac_yymm = stac_yymm
                                    /\ tbl[i].period_type = period_type}
  IN  IF hits = {} THEN 0 ELSE CHOOSE i \in hits : \A j \in hits : i <= j

\* mutant: the index is not unique
idx_ticker_stac_period_plain(tbl) == TRUE

\* idx_ticker_stac_period, unique=True
idx_ticker_stac_period(tbl) ==
  \A i, j \in 1..Len(tbl) :
     (/\ tbl[i].ticker = tbl[j].ticker
      /\ tbl[i].stac_yymm = tbl[j].stac_yymm
      /\ tbl[i].period_type = tbl[j].period_type) => i = j

\* ForeignKey("stocks.ticker")
fk_ticker(tbl, stks) == \A i \in 1..Len(tbl) : tbl[i].ticker \in stks

\* roe_val is DECIMAL(10, 4): six digits before the point, in units of
\* 1/Scale
DecimalMax == 99999999

\* a decimal column holds a finite number of its precision; inf and nan are
\* not values of a DECIMAL column and are refused when the row is flushed
decimal_in_range(tbl) ==
  \A i \in 1..Len(tbl) : \A c \in decimal_fields :
     tbl[i].cols[c] # None =>
        (tbl[i].cols[c][1] <= DecimalMax /\ 0 - tbl[i].cols[c][1] <= DecimalMax)

\* mutant: every row is written on its own, a refused write is dropped
\* silently and the updates made before it stay
commit_each(old, acc, stks) ==
  IF /\ idx_ticker_stac_period(acc.tbl \o acc.pending)
     /\ fk_ticker(acc.tbl \o acc.pending, stks)
     /\ decimal_in_range(acc.tbl \o acc.pending)
  THEN [raised |-> FALSE, table |-> acc.tbl \o acc.pending,
        saved |-> acc.saved]
  ELSE [raised |-> FALSE, table |-> acc.tbl, saved |-> acc.saved]

\* db.commit() at the end of a save: flush the updated rows (acc.tbl) and
\* the added rows (acc.pending) in one transaction; a violated constraint or
\* a refused value raises, nothing of the transaction is kept and the call
\* returns no count.
commit(old, acc, stks) ==
  IF /\ idx_ticker_stac_period(acc.tbl \o acc.pending)
     /\ fk_ticker(acc.tbl \o acc.pending, stks)
     /\ decimal_in_range(acc.tbl \o acc.pending)
  THEN [raised |-> FALSE, table |-> acc.tbl \o acc.pending,
        saved |-> acc.saved]
  ELSE [raised |-> TRUE, table |-> old, saved |-> 0]

----------------------------------------------------------------------------
(* save_financials *)

\* period_char = "Y" if period_type == "0" else "Q"
period_char(period_type) == IF period_type = "0" THEN "Y" ELSE "Q"

\* mutant: setattr without the `converted_val is not None` test
update_existing_unchecked(cols, data) ==
  [c \in valid_columns |->
     IF c \in DataKeys(data) THEN convert_value(c, data[c]) ELSE cols[c]]

\* setattr(existing, key, converted_val) under `converted_val is not None`
set_if_not_none(stored, converted_val) ==
  IF converted_val # None THEN converted_val ELSE stored

\* the order of data.items(): a merged record holds the keys of the balance
\* sheet, then those of the income statement, then those of the ratios
ColumnOrder == <<"cpfn", "sale_account", "bsop_prti", "thtr_ntin", "roe_val">>

position(key) == CHOOSE i \in 1..Len(ColumnOrder) : ColumnOrder[i] = key

\* the keys of a record whose conversion raises
raising_keys(data) ==
  {key \in DataKeys(data) : convert_value(key, data[key]) = OverflowError}

\* the record's try block is left by an exception of _convert_value
conversion_raises(data) == raising_keys(data) # {}

\* the keys the loop over data.items() reaches before it is left
keys_reached(data) ==
  {key \in DataKeys(data) :
     \A r \in raising_keys(data) : position(key) < position(r)}

\* the update branch: setattr for every key reached whose converted value is
\* not None, every other column keeps its value
update_existing(cols, data) ==
  [c \in valid_columns |->
     IF c \in keys_reached(data)
     THEN set_if_not_none(cols[c], convert_value(c, data[c]))
     ELSE cols[c]]

\* the insert branch: fs_data with the three key fields and every converted
\* value that is not None
new_statement(ticker, stac_yymm, pchar, data) ==
  [ticker |-> ticker, stac_yymm |-> stac_yymm, period_type |-> pchar,
   cols |-> [c \in valid_columns |->
               IF c \in DataKeys(data) THEN convert_value(c, data[c])
               ELSE None]]

\* the body of the loop for a record with a label: update the row found
\* (id existing) or add a new one; an exception of _convert_value leaves the
\* body for `except Exception: continue`, before db.add and before
\* saved_count += 1
save_record(acc, ticker, pchar, data, existing) ==
  IF existing # 0
  THEN [acc EXCEPT !.tbl[existing].cols = update_existing(@, data),
                   !.saved = IF conversion_raises(data) THEN @ ELSE @ + 1]
  ELSE IF conversion_raises(data) THEN acc
  ELSE [acc EXCEPT !.pending = Append(@, new_statement(ticker,
                                                       stac_yymm_of(data),
                                                       pchar, data)),
                   !.saved = @ + 1]

\* one iteration of `for data in merged_data`
save_one(acc, ticker, pchar, data) ==
  IF stac_yymm_of(data) = NoLabel THEN acc
  ELSE save_record(acc, ticker, pchar, data,
                   query_first(acc.tbl, ticker, stac_yymm_of(data), pchar))

RECURSIVE save_loop(_, _, _, _, _)
save_loop(acc, ticker, pchar, merged_data, i) ==
  IF i > Len(merged_data) THEN acc
  ELSE save_loop(save_one(acc, ticker, pchar, merged_data[i]),
                 ticker, pchar, merged_data, i + 1)

\* save_financials(db, ticker, period_type, merged_data):
\* [raised, table, saved]
save_financials(tbl, stks, ticker, period_type, merged_data) ==
  IF merged_data = <<>> THEN [raised |-> FALSE, table |-> tbl, saved |-> 0]
  ELSE commit(tbl,
              save_loop([tbl |-> tbl, pending |-> <<>>, saved |-> 0],
                        ticker, period_char(period_type), merged_data, 1),
              stks)

----------------------------------------------------------------------------
(* _save_quarterly_actuals *)

\* mutant: a failed conversion gives zero
minus_prev_zero(converted_current, converted_prev) ==
  IF converted_current # None /\ converted_prev # None
  THEN Some(converted_current[1] - converted_prev[1])
  ELSE Some(0)

\* converted_current - converted_prev when both are not None, otherwise
\* converted_current
minus_prev(converted_current, converted_prev) ==
  IF converted_current # None /\ converted_prev # None
  THEN Some(converted_current[1] - converted_prev[1])
  ELSE converted_current

\* mutant: the subtraction is made only against the quarter three months
\* before
actual_value_adjacent(key, current_quarter, prev_quarter) ==
  IF /\ key \in cumulative_fields
     /\ prev_quarter # None
     /\ key \in DOMAIN prev_quarter[1]
     /\ prev_quarter[1][key].k # "none"
     /\ stac_yymm_of(current_quarter) - stac_yymm_of(prev_quarter[1]) = 3
  THEN minus_prev(convert_value(key, current_quarter[key]),
                  convert_value(key, prev_quarter[1][key]))
  ELSE convert_value(key, current_quarter[key])

\* actual_data[key] for one key of the current quarter
actual_value(key, current_quarter, prev_quarter) ==
  IF /\ key \in cumulative_fields
     /\ prev_quarter # None
     /\ key \in DOMAIN prev_quarter[1]
     /\ prev_quarter[1][key].k # "none"
  THEN minus_prev(convert_value(key, current_quarter[key]),
                  convert_value(key, prev_quarter[1][key]))
  ELSE convert_value(key, current_quarter[key])

\* actual_data of one quarter: the keys it holds and their values
actual_data(current_quarter, prev_quarter) ==
  [key \in DataKeys(current_quarter) |->
     actual_value(key, current_quarter, prev_quarter)]

\* mutant: setattr without the `value is not None` test
update_quarter_unchecked(cols, actual) ==
  [c \in valid_columns |->
     IF c \in DOMAIN actual THEN actual[c] ELSE cols[c]]

\* the update branch of the quarterly save
update_quarter(cols, actual) ==
  [c \in valid_columns |->
     IF c \in DOMAIN actual /\ actual[c] # None THEN actual[c] ELSE cols[c]]

\* the insert branch of the quarterly save: fs_data.update(actual_data)
new_quarter(ticker, stac_yymm, actual) ==
  [ticker |-> ticker, stac_yymm |-> stac_yymm, period_type |-> "Q",
   cols |-> [c \in valid_columns |->
               IF c \in DOMAIN actual THEN actual[c] ELSE None]]

\* mutant: the cursor is the derived actual record
next_prev_quarter_derived(current_quarter, actual) ==
  Some([key \in DOMAIN current_quarter |->
          IF key \in DOMAIN actual /\ key \in cumulative_fields
             /\ actual[key] # None
          THEN RNum(actual[key][1])
          ELSE current_quarter[key]])

\* prev_quarter = current_quarter: the cursor is the record as reported
next_prev_quarter(current_quarter, actual) == Some(current_quarter)

\* mutant: the row found is deleted instead of updated
save_quarter_delete(acc, ticker, current_quarter, actual, existing) ==
  [acc EXCEPT
     !.tbl = IF existing # 0
             THEN [j \in 1..(Len(@) - 1) |->
                     IF j < existing THEN @[j] ELSE @[j + 1]]
             ELSE @,
     !.pending = IF existing # 0 THEN @
                 ELSE Append(@, new_quarter(ticker,
                                            stac_yymm_of(current_quarter),
                                            actual)),
     !.saved = @ + 1,
     !.prev_quarter = next_prev_quarter(current_quarter, actual)]

\* the body of the loop for a quarter with a label, actual its actual_data
\* and existing the id of the row found: update it or add a new one, and
\* move the cursor
save_quarter(acc, ticker, current_quarter, actual, existing) ==
  [acc EXCEPT
     !.tbl = IF existing # 0
             THEN [@ EXCEPT ![existing].cols = update_quarter(@, actual)]
             ELSE @,
     !.pending = IF existing # 0 THEN @
                 ELSE Append(@, new_quarter(ticker,
                                            stac_yymm_of(current_quarter),
                                            actual)),
     !.saved = @ + 1,
     !.prev_quarter = next_prev_quarter(current_quarter, actual)]

\* building actual_data is left by an exception of _convert_value
quarter_raises(current_quarter, prev_quarter) ==
  \E key \in DataKeys(current_quarter) :
     \/ convert_value(key, current_quarter[key]) = OverflowError
     \/ /\ key \in cumulative_fields
        /\ prev_quarter # None
        /\ key \in DOMAIN prev_quarter[1]
        /\ prev_quarter[1][key].k # "none"
        /\ convert_value(key, prev_quarter[1][key]) = OverflowError

\* mutant: the cursor moves to the quarter that failed
quarter_failed_advance(acc, current_quarter) ==
  [acc EXCEPT !.prev_quarter = Some(current_quarter)]

\* `except Exception: continue`: the quarter is not counted and the cursor
\* stays where it was
quarter_failed(acc, current_quarter) == acc

\* mutant: for a quarter that has a row, the subtraction is made against
\* the values the row holds
quarter_one_stored(acc, ticker, current_quarter) ==
  IF stac_yymm_of(current_quarter) = NoLabel THEN acc
  ELSE IF quarter_raises(current_quarter, acc.prev_quarter)
  THEN quarter_failed(acc, current_quarter)
  ELSE LET existing == query_first(acc.tbl, ticker,
                                   stac_yymm_of(current_quarter), "Q")
           stored == IF existing = 0 THEN acc.prev_quarter
                     ELSE Some([key \in {k \in cumulative_fields :
                                           acc.tbl[existing].cols[k] # None}
                                  |-> RNum(acc.tbl[existing].cols[key][1])])
       IN  save_quarter(acc, ticker, current_quarter,
                        actual_data(current_quarter, stored), existing)

\* one iteration of `for idx, current_quarter in enumerate(year_data)`; an
\* exception leaves it for `except Exception: continue` before the query,
\* the count and the move of the cursor
quarter_one(acc, ticker, current_quarter) ==
  IF stac_yymm_of(current_quarter) = NoLabel THEN acc
  ELSE IF quarter_raises(current_quarter, acc.prev_quarter)
  THEN quarter_failed(acc, current_quarter)
  ELSE save_quarter(acc, ticker, current_quarter,
                    actual_data(current_quarter, acc.prev_quarter),
                    query_first(acc.tbl, ticker,
                                stac_yymm_of(current_quarter), "Q"))

RECURSIVE quarter_loop(_, _, _, _)
quarter_loop(acc, ticker, year_data, i) ==
  IF i > Len(year_data) THEN acc
  ELSE quarter_loop(quarter_one(acc, ticker, year_data[i]),
                    ticker, year_data, i + 1)

\* _save_quarterly_actuals(db, ticker, year_data): [raised, table, saved]
save_quarterly_actuals(tbl, stks, ticker, year_data) ==
  commit(tbl,
         quarter_loop([tbl |-> tbl, pending |-> <<>>, saved |-> 0,
                       prev_quarter |-> None], ticker, year_data, 1),
         stks)

----------------------------------------------------------------------------
(* calculate_ttm_valuation *)

\* assumed par value: shares_outstanding = cpfn / 5000
ParValue == 5000

\* number of quarters of a trailing twelve months
TTMQuarters == 4

\* round(num / den, 2) for den # 0, in units of 1/Scale, ties to even
Round2(num, den) ==
  LET d == IF den < 0 THEN 0 - den ELSE den
      n == (IF den < 0 THEN 0 - num ELSE num) * Scale
      q == n \div d
      r == n % d
  IN  IF 2 * r < d THEN q
      ELSE IF 2 * r > d THEN q + 1
      ELSE IF q % 2 = 0 THEN q ELSE q + 1

\* mutant: stac_yymm < base_quarter
quarter_filter_strict(tbl, ticker, base_quarter) ==
  {i \in 1..Len(tbl) : /\ tbl[i].ticker = ticker
                        /\ tbl[i].period_type = "Q"
                        /\ tbl[i].stac_yymm < base_quarter}

\* the ids of the QUARTERLY rows of the ticker with stac_yymm <= base_quarter
quarter_filter(tbl, ticker, base_quarter) ==
  {i \in 1..Len(tbl) : /\ tbl[i].ticker = ticker
                        /\ tbl[i].period_type = "Q"
                        /\ tbl[i].stac_yymm <= base_quarter}

RECURSIVE order_by_stac_desc(_, _)
\* .order_by(stac_yymm.desc()): the ids as a sequence, latest label first
order_by_stac_desc(tbl, ids) ==
  IF ids = {} THEN <<>>
  ELSE LET top == CHOOSE i \in ids :
                    \A j \in ids :
                       \/ tbl[i].stac_yymm > tbl[j].stac_yymm
                       \/ tbl[i].stac_yymm = tbl[j].stac_yymm /\ i <= j
       IN  <<top>> \o order_by_stac_desc(tbl, ids \ {top})

\* .limit(n)
limit_rows(rows, n) == SubSeq(rows, 1, IF Len(rows) < n THEN Len(rows) ELSE n)

\* the latest QUARTERLY label of the ticker, None when it has none
latest_quarter_label(tbl, ticker) ==
  LET ids == {i \in 1..Len(tbl) : tbl[i].ticker = ticker
                                   /\ tbl[i].period_type = "Q"}
  IN  IF ids = {} THEN None
      ELSE Some(tbl[order_by_stac_desc(tbl, ids)[1]].stac_yymm)

\* quarters = query.order_by(desc).limit(4).all()
ttm_quarters(tbl, ticker, base_quarter) ==
  limit_rows(order_by_stac_desc(tbl, quarter_filter(tbl, ticker, base_quarter)),
             TTMQuarters)

\* mutant: one quarter less is accepted
insufficient_lenient(quarters) == Len(quarters) < TTMQuarters - 1

\* if len(quarters) < 4
insufficient(quarters) == Len(quarters) < TTMQuarters

RECURSIVE sum_or_zero(_, _, _)
\* sum(q.<col> or 0 for q in quarters)
sum_or_zero(tbl, quarters, col) ==
  IF quarters = <<>> THEN 0
  ELSE OrZero(tbl[Head(quarters)].cols[col])
       + sum_or_zero(tbl, Tail(quarters), col)

\* eps_ttm as the exact fraction num / den, None when it is not computed:
\* shares_outstanding = cpfn / 5000 if cpfn, eps_ttm = net / shares if
\* shares_outstanding and shares_outstanding > 0
eps_ttm(ttm_net_income, cpfn) ==
  IF Truthy(cpfn) /\ cpfn[1] > 0
  THEN Some([num |-> ttm_net_income * ParValue, den |-> cpfn[1]])
  ELSE None

\* "eps": round(eps_ttm, 2) if eps_ttm else None
eps_reported(eps) ==
  IF eps # None /\ eps[1].num # 0 THEN Some(Round2(eps[1].num, eps[1].den))
  ELSE None

\* mutant: without the `eps_ttm > 0` test
per_ttm_any_sign(price, eps) ==
  IF price # None /\ eps # None /\ eps[1].num # 0
  THEN Some([num |-> price[1] * eps[1].den, den |-> eps[1].num])
  ELSE None

\* per_ttm = current_price / eps_ttm if eps_ttm and eps_ttm > 0, inside
\* `if price_result`; as a fraction num / den
per_ttm(price, eps) ==
  IF price # None /\ eps # None /\ eps[1].num > 0
  THEN Some([num |-> price[1] * eps[1].den, den |-> eps[1].num])
  ELSE None

\* "per": round(per_ttm, 2) if per_ttm else None
per_reported(per) ==
  IF per # None /\ per[1].num # 0 THEN Some(Round2(per[1].num, per[1].den))
  ELSE None

\* the two error returns: status and message only (as_of_date and ticker
\* record the arguments of the call)
ErrorResult(ticker, as_of_date, message) ==
  [op |-> "calculate_ttm_valuation", status |-> "error", message |-> message,
   ticker |-> ticker, as_of_date |-> as_of_date, base_quarter |-> None,
   quarters_used |-> <<>>, ttm |-> None, current_price |-> None]

\* result["ttm"]: eps is the exact eps_ttm, price the latest closing price
ttm_values(tbl, quarters, net, eps, price) ==
  [sales |-> sum_or_zero(tbl, quarters, "sale_account"),
   operating_income |-> sum_or_zero(tbl, quarters, "bsop_prti"),
   net_income |-> net,
   eps |-> eps_reported(eps),
   per |-> per_reported(per_ttm(price, eps))]

\* the function from the quarters query on, base the base quarter
ttm_of_quarters(tbl, prices, ticker, as_of_date, base, quarters) ==
  IF insufficient(quarters)
  THEN ErrorResult(ticker, as_of_date, "Insufficient quarterly data")
  ELSE [op |-> "calculate_ttm_valuation", status |-> "success",
        message |-> "", ticker |-> ticker,
        as_of_date |-> as_of_date, base_quarter |-> base,
        quarters_used |-> [i \in 1..Len(quarters) |->
                              tbl[quarters[i]].stac_yymm],
        ttm |-> Some(ttm_values(tbl, quarters,
                                sum_or_zero(tbl, quarters, "thtr_ntin"),
                                eps_ttm(sum_or_zero(tbl, quarters,
                                                    "thtr_ntin"),
                                        tbl[quarters[1]].cols["cpfn"]),
                                prices[ticker])),
        current_price |-> prices[ticker]]

\* the function from the base quarter on: base is as_of_date when given,
\* otherwise the latest quarterly label (None when there is none)
ttm_of_base(tbl, prices, ticker, as_of_date, base) ==
  IF base = None
  THEN ErrorResult(ticker, as_of_date, "No quarterly data available")
  ELSE ttm_of_quarters(tbl, prices, ticker, as_of_date, base,
                       ttm_quarters(tbl, ticker, base[1]))

\* calculate_ttm_valuation(db, ticker, as_of_date); as_of_date is None or
\* Some(label)
calculate_ttm_valuation(tbl, prices, ticker, as_of_date) ==
  ttm_of_base(tbl, prices, ticker, as_of_date,
              IF as_of_date # None THEN as_of_date
              ELSE latest_quarter_label(tbl, ticker))

----------------------------------------------------------------------------
(* The valuation cache and screen_stocks.  A cache row is                 *)
(* [current_price, per, pbr, roe_val], ratios in units of 1/Scale.        *)

\* the stored procedure update_valuation_cache(ticker): it recomputes the
\* ticker's row from its latest annual statement and its latest price and
\* leaves the cache alone when either is missing; the ratios it computes
\* are the argument ratios
proc_update_valuation_cache(tbl, prices, cache, ticker, ratios) ==
  IF /\ \E i \in 1..Len(tbl) : tbl[i].ticker = ticker
                                /\ tbl[i].period_type = "Y"
     /\ prices[ticker] # None
  THEN [cache EXCEPT ![ticker] =
          Some([current_price |-> prices[ticker], per |-> ratios.per,
                pbr |-> ratios.pbr, roe_val |-> ratios.roe_val])]
  ELSE cache

\* update_valuation_cache(db, ticker): call the procedure, read the row
update_valuation_cache(tbl, prices, cache, ticker, ratios) ==
  LET new == proc_update_valuation_cache(tbl, prices, cache, ticker, ratios)
  IN  [cache  |-> new,
       status |-> IF new[ticker] # None THEN "success" ELSE "no_data"]

\* mutant: > in place of >=
at_least_strict(v, bound) == bound = None \/ (v # None /\ v[1] > bound[1])

\* a comparison of the WHERE clause: unknown (not true) on NULL, and no
\* condition at all when the filter is not given
at_least(v, bound) == bound = None \/ (v # None /\ v[1] >= bound[1])

at_most(v, bound) == bound = None \/ (v # None /\ v[1] <= bound[1])

\* the tickers selected by FROM stock_valuation_cache c JOIN stocks s
\* WHERE <conditions> AND c.per IS NOT NULL AND c.pbr IS NOT NULL
screen_where(cache, stks, f) ==
  {t \in DOMAIN cache :
     /\ cache[t] # None
     /\ t \in stks
     /\ at_least(cache[t][1].per, f.min_per)
     /\ at_most(cache[t][1].per, f.max_per)
     /\ at_least(cache[t][1].pbr, f.min_pbr)
     /\ at_most(cache[t][1].pbr, f.max_pbr)
     /\ at_least(cache[t][1].roe_val, f.min_roe)
     /\ cache[t][1].per # None
     /\ cache[t][1].pbr # None}

\* mutant: ORDER BY c.per DESC
order_by_per_desc(cache, sel) ==
  {o \in [1..Cardinality(sel) -> sel] :
     /\ \A i, j \in 1..Cardinality(sel) : i # j => o[i] # o[j]
     /\ \A i \in 1..(Cardinality(sel) - 1) :
           cache[o[i]][1].per[1] >= cache[o[i + 1]][1].per[1]}

\* ORDER BY c.per ASC: every arrangement of the selected tickers with
\* non-decreasing per (rows of equal per come in any order)
order_by_per_asc(cache, sel) ==
  {o \in [1..Cardinality(sel) -> sel] :
     /\ \A i, j \in 1..Cardinality(sel) : i # j => o[i] # o[j]
     /\ \A i \in 1..(Cardinality(sel) - 1) :
           cache[o[i]][1].per[1] <= cache[o[i + 1]][1].per[1]}

\* one element of the returned list
screen_item(cache, t) ==
  [ticker |-> t, current_price |-> cache[t][1].current_price,
   per |-> cache[t][1].per, pbr |-> cache[t][1].pbr,
   roe_val |-> IF Truthy(cache[t][1].roe_val) THEN cache[t][1].roe_val
               ELSE None]

\* screen_stocks(db, min_per, max_per, min_pbr, max_pbr, min_roe, limit):
\* the lists it can return; float(r.current_price) of a NULL raises and
\* the except branch returns []
screen_stocks(cache, stks, f, limit) ==
  {LET rows == limit_rows(o, limit)
   IN  IF \E i \in 1..Len(rows) : cache[rows[i]][1].current_price = None
       THEN <<>>
       ELSE [i \in 1..Len(rows) |-> screen_item(cache, rows[i])] :
   o \in order_by_per_asc(cache, screen_where(cache, stks, f))}

----------------------------------------------------------------------------
(* Inputs: the stocks directory and the upstream records the calls are    *)
(* made with.  Strings are written character by character.                *)

Tickers == {"005930", "000660", "035720"}

\* one annual period, two magnitude fields (one with a decimal point)
Annual1 ==
  <<[stac_yymm |-> 202412, cpfn |-> RStr(<<"5", ",", "0", "0", "0">>), thtr_ntin |-> RStr(<<"7", "0", "0", ".", "9">>)]>>

\* the same period with an empty, a malformed and a None field and one ratio
Annual2 ==
  <<[stac_yymm |-> 202412, cpfn |-> RStr(<<>>), sale_account |-> RStr(<<"a", "b", "c">>), thtr_ntin |-> RNone, roe_val |-> RStr(<<"1", "2", ".", "5">>)]>>

\* the same period with a negative net income and a blank ratio
Annual3 ==
  <<[stac_yymm |-> 202412, thtr_ntin |-> RStr(<<"-", "3", "0", "0">>), roe_val |-> RStr(<<" ", " ">>)]>>

\* a record without stac_yymm, then two periods, latest first
Annual4 ==
  <<[thtr_ntin |-> RStr(<<"5", "0", "0">>)],
    [stac_yymm |-> 202412, cpfn |-> RStr(<<" ", "1", "5", ",", "0", "0", "0", " ">>)],
    [stac_yymm |-> 202312, thtr_ntin |-> RStr(<<"5", "0", "0">>)]>>

\* the same period twice in one list
Annual5 ==
  <<[stac_yymm |-> 202412, cpfn |-> RStr(<<"5", ",", "0", "0", "0">>)],
    [stac_yymm |-> 202412, thtr_ntin |-> RStr(<<"2", "5", "0", "0">>)]>>

\* 2025, four quarters, cumulative values
Year2025 ==
  <<[stac_yymm |-> 202503, cpfn |-> RStr(<<"5", ",", "0", "0", "0">>), sale_account |-> RStr(<<"1", "0", "0", "0">>), bsop_prti |-> RStr(<<"1", "0", "0">>), thtr_ntin |-> RStr(<<"5", "0", "0">>), roe_val |-> RStr(<<"3", ".", "1">>)],
    [stac_yymm |-> 202506, cpfn |-> RStr(<<"5", ",", "0", "0", "0">>), sale_account |-> RStr(<<"2", ",", "5", "0", "0">>), bsop_prti |-> RStr(<<"3", "0", "0">>), thtr_ntin |-> RStr(<<"1", ",", "2", "0", "0">>), roe_val |-> RStr(<<"3", ".", "4">>)],
    [stac_yymm |-> 202509, cpfn |-> RStr(<<"5", ",", "0", "0", "0">>), sale_account |-> RStr(<<"3", "9", "0", "0", ".", "0", "0">>), bsop_prti |-> RStr(<<"4", "5", "0">>), thtr_ntin |-> RStr(<<"1", "9", "5", "0", ".", "0", "0">>), roe_val |-> RStr(<<"3", ".", "2">>)],
    [stac_yymm |-> 202512, cpfn |-> RStr(<<" ", "1", "5", ",", "0", "0", "0", " ">>), sale_account |-> RStr(<<"5", "0", "0", "0">>), bsop_prti |-> RStr(<<"7", "0", "0">>), thtr_ntin |-> RStr(<<"2", "5", "0", "0">>), roe_val |-> RStr(<<"2", ".", "9">>)]>>

\* 2025, four quarters ending the year at break-even
Year2025Loss ==
  <<[stac_yymm |-> 202503, cpfn |-> RStr(<<"5", ",", "0", "0", "0">>), sale_account |-> RStr(<<"8", "0", "0">>), thtr_ntin |-> RStr(<<"-", "5", "0">>)],
    [stac_yymm |-> 202506, cpfn |-> RStr(<<"5", ",", "0", "0", "0">>), sale_account |-> RStr(<<"1", "6", "0", "0">>), thtr_ntin |-> RStr(<<"-", "1", "2", "0">>)],
    [stac_yymm |-> 202509, cpfn |-> RStr(<<"5", ",", "0", "0", "0">>), sale_account |-> RStr(<<"2", "4", "0", "0">>), thtr_ntin |-> RStr(<<"-", "1", "2", "0">>)],
    [stac_yymm |-> 202512, cpfn |-> RStr(<<"5", ",", "0", "0", "0">>), sale_account |-> RStr(<<"3", "2", "0", "0">>), thtr_ntin |-> RStr(<<"0">>)]>>

\* 2025, four quarters ending the year with a loss, capital shrinking to zero and below
Year2025Deficit ==
  <<[stac_yymm |-> 202503, cpfn |-> RStr(<<"1", "0", ",", "0", "0", "0">>), thtr_ntin |-> RStr(<<"1", "0", "0">>)],
    [stac_yymm |-> 202506, cpfn |-> RStr(<<"0">>), thtr_ntin |-> RStr(<<"5", "0">>)],
    [stac_yymm |-> 202509, cpfn |-> RStr(<<"-", "5", "0", "0", "0">>), thtr_ntin |-> RStr(<<"-", "1", "0", "0">>)],
    [stac_yymm |-> 202512, cpfn |-> RStr(<<"1", "0", ",", "0", "0", "0">>), thtr_ntin |-> RStr(<<"-", "3", "0", "0">>)]>>

\* 2025 while only three quarters are published
Year2025Q3 ==
  <<[stac_yymm |-> 202503, cpfn |-> RStr(<<"5", ",", "0", "0", "0">>), sale_account |-> RStr(<<"1", "0", "0", "0">>), bsop_prti |-> RStr(<<"1", "0", "0">>), thtr_ntin |-> RStr(<<"5", "0", "0">>)],
    [stac_yymm |-> 202506, cpfn |-> RStr(<<"5", ",", "0", "0", "0">>), sale_account |-> RStr(<<"2", ",", "5", "0", "0">>), bsop_prti |-> RStr(<<"3", "0", "0">>), thtr_ntin |-> RStr(<<"1", ",", "2", "0", "0">>)],
    [stac_yymm |-> 202509, sale_account |-> RStr(<<"3", "9", "0", "0", ".", "0", "0">>), bsop_prti |-> RStr(<<"4", "5", "0">>), thtr_ntin |-> RStr(<<"1", "9", "5", "0", ".", "0", "0">>)]>>

\* the last quarter of 2024
Year2024Q4 ==
  <<[stac_yymm |-> 202412, cpfn |-> RStr(<<"5", ",", "0", "0", "0">>), sale_account |-> RStr(<<"4", "0", "0", "0">>), bsop_prti |-> RStr(<<"6", "0", "0">>), thtr_ntin |-> RStr(<<"9", "0", "0">>)]>>

\* 2025 with the second quarter missing and unusable values
Year2025Gaps ==
  <<[stac_yymm |-> 202503, sale_account |-> RStr(<<>>), bsop_prti |-> RStr(<<"a", "b", "c">>), thtr_ntin |-> RStr(<<"5", "0", "0">>)],
    [stac_yymm |-> 202509, cpfn |-> RStr(<<>>), sale_account |-> RStr(<<"3", "9", "0", "0", ".", "0", "0">>), bsop_prti |-> RStr(<<"4", "5", "0">>), thtr_ntin |-> RNone, roe_val |-> RStr(<<"a", "b", "c">>)],
    [stac_yymm |-> 202512, sale_account |-> RStr(<<"a", "b", "c">>), bsop_prti |-> RStr(<<" ", " ">>), thtr_ntin |-> RStr(<<>>), roe_val |-> RStr(<<"2", ".", "9">>)]>>

\* save_financials calls: <<ticker, period_type, merged_data>>
FinancialCalls ==
  {<<"005930", "0", Annual1>>, <<"005930", "0", Annual2>>,
   <<"005930", "0", Annual3>>, <<"005930", "0", Annual4>>,
   <<"005930", "0", Annual5>>, <<"005930", "1", Annual1>>,
   <<"005930", "1", Annual3>>,
   <<"000660", "0", Annual1>>, <<"000660", "0", Annual3>>}

\* quarterly saves made next to annual saves: <<ticker, year_data>>
QuarterlyCalls ==
  {<<"005930", Year2024Q4>>, <<"005930", Year2025Q3>>,
   <<"005930", Year2025Gaps>>, <<"000660", Year2024Q4>>}

\* quarterly saves made before a TTM calculation: <<ticker, year_data>>
TTMCalls ==
  {<<"005930", Year2025>>, <<"005930", Year2025Loss>>,
   <<"005930", Year2025Deficit>>, <<"005930", Year2025Q3>>,
   <<"005930", Year2024Q4>>, <<"005930", Year2025Gaps>>,
   <<"000660", Year2025Loss>>}

\* price updates: <<ticker, closing price>>
PriceCalls == {<<"005930", 0>>, <<"005930", 70>>, <<"000660", 70>>}

\* as_of_date arguments
AsOfDates == {None, Some(202509), Some(202512)}

\* ratios the cache procedure may compute, in units of 1/Scale
CacheRatios ==
  {[per |-> Some(800),  pbr |-> Some(90),  roe_val |-> Some(1200)],
   [per |-> Some(1500), pbr |-> Some(90),  roe_val |-> Some(2000)],
   [per |-> None,       pbr |-> Some(90),  roe_val |-> Some(1100)],
   [per |-> Some(800),  pbr |-> None,      roe_val |-> Some(1200)],
   [per |-> Some(1000), pbr |-> Some(150), roe_val |-> None],
   [per |-> Some(800),  pbr |-> Some(100), roe_val |-> Some(1000)]}

NoFilter ==
  [min_per |-> None, max_per |-> None, min_pbr |-> None, max_pbr |-> None,
   min_roe |-> None]

\* filter sets of the screen calls
ScreenFilters ==
  {NoFilter,
   [NoFilter EXCEPT !.max_per = Some(1000), !.min_roe = Some(1000)],
   [NoFilter EXCEPT !.min_per = Some(1000)],
   [NoFilter EXCEPT !.max_pbr = Some(100), !.min_roe = Some(1200)],
   [NoFilter EXCEPT !.min_pbr = Some(100)],
   [min_per |-> Some(800), max_per |-> Some(1500), min_pbr |-> Some(90),
    max_pbr |-> Some(150), min_roe |-> Some(1100)]}

----------------------------------------------------------------------------
(* Initial state and the calls *)

NoResult == [op |-> "none"]

Init ==
  /\ financial_statements = <<>>
  /\ stock_prices = [t \in Tickers |-> None]
  /\ stock_valuation_cache = [t \in Tickers |-> None]
  /\ stocks = Tickers
  /\ log = <<>>
  /\ result = NoResult
  /\ calls = <<>>
  /\ sessions = <<>>

\* the effect of a save that returned r = [raised, table, saved]
Saved(op, ticker, pchar, data, r) ==
  /\ Len(log) < MaxOps
  /\ financial_statements' = r.table
  /\ result' = [op |-> op, raised |-> r.raised, saved |-> r.saved]
  /\ log' = Append(log, [op |-> op, ticker |-> ticker,
                         period_type |-> pchar, data |-> data,
                         before |-> financial_statements,
                         raised |-> r.raised])
  /\ UNCHANGED <<stock_prices, stock_valuation_cache, stocks, calls,
                 sessions>>

\* save_financials(db, ticker, period_type, merged_data)
SaveFinancials(ticker, period_type, merged_data) ==
  Saved("save_financials", ticker, period_char(period_type), merged_data,
        save_financials(financial_statements, stocks, ticker, period_type,
                        merged_data))

\* _save_quarterly_actuals(db, ticker, year_data)
SaveQuarterlyActuals(ticker, year_data) ==
  Saved("save_quarterly_actuals", ticker, "Q", year_data,
        save_quarterly_actuals(financial_statements, stocks, ticker,
                               year_data))

\* the price collector stores a later closing price of the ticker
SavePrice(ticker, price) ==
  /\ Len(log) < MaxOps
  /\ stock_prices' = [stock_prices EXCEPT ![ticker] = Some(price)]
  /\ result' = [op |-> "save_price"]
  /\ log' = Append(log, [op |-> "save_price", ticker |-> ticker,
                         period_type |-> "", data |-> <<>>,
                         before |-> financial_statements, raised |-> FALSE])
  /\ UNCHANGED <<financial_statements, stock_valuation_cache, stocks, calls,
                 sessions>>

\* calculate_ttm_valuation(db, ticker, as_of_date)
CalculateTTM(ticker, as_of_date) ==
  /\ result' = calculate_ttm_valuation(financial_statements, stock_prices,
                                       ticker, as_of_date)
  /\ UNCHANGED <<financial_statements, stock_prices, stock_valuation_cache,
                 stocks, log, calls, sessions>>

\* update_valuation_cache(db, ticker)
UpdateValuationCache(ticker, ratios) ==
  LET r == update_valuation_cache(financial_statements, stock_prices,
                                  stock_valuation_cache, ticker, ratios)
  IN  /\ stock_valuation_cache' = r.cache
      /\ result' = [op |-> "update_valuation_cache", ticker |-> ticker,
                    status |-> r.status]
      /\ UNCHANGED <<financial_statements, stock_prices, stocks, log, calls,
                     sessions>>

\* screen_stocks(db, min_per, max_per, min_pbr, max_pbr, min_roe, limit)
ScreenStocks(f, limit) ==
  /\ \E items \in screen_stocks(stock_valuation_cache, stocks, f, limit) :
        result' = [op |-> "screen_stocks", filters |-> f, limit |-> limit,
                   items |-> items]
  /\ UNCHANGED <<financial_statements, stock_prices, stock_valuation_cache,
                 stocks, log, calls, sessions>>

\* ingestion: annual and quarterly saves
Next ==
  \/ \E c \in FinancialCalls : SaveFinancials(c[1], c[2], c[3])
  \/ \E c \in QuarterlyCalls : SaveQuarterlyActuals(c[1], c[2])

Spec == Init /\ [][Next]_vars

\* quarterly ingestion, prices and the TTM calculation
NextTTM ==
  \/ \E c \in TTMCalls : SaveQuarterlyActuals(c[1], c[2])
  \/ \E c \in PriceCalls : SavePrice(c[1], c[2])
  \/ \E t \in Tickers, d \in AsOfDates : CalculateTTM(t, d)

SpecTTM == Init /\ [][NextTTM]_vars

\* the table after an annual save for each stock
SeededStatements ==
  LET s1 == save_financials(<<>>, Tickers, "005930", "0", Annual1).table
      s2 == save_financials(s1, Tickers, "000660", "0", Annual1).table
  IN  save_financials(s2, Tickers, "035720", "0", Annual3).table

\* a database in which every stock has an annual statement and a price
InitScreen ==
  /\ financial_statements = SeededStatements
  /\ stock_prices = [t \in Tickers |-> Some(70)]
  /\ stock_valuation_cache = [t \in Tickers |-> None]
  /\ stocks = Tickers
  /\ log = <<>>
  /\ result = NoResult
  /\ calls = <<>>
  /\ sessions = <<>>

\* cache refreshes and screening
NextScreen ==
  \/ \E t \in Tickers, r \in CacheRatios : UpdateValuationCache(t, r)
  \/ \E f \in ScreenFilters, n \in 1..MaxLimit : ScreenStocks(f, n)

SpecScreen == InitScreen /\ [][NextScreen]_vars

----------------------------------------------------------------------------
(* Properties of the upsert (C1 - C3) *)

Last(seq) == seq[Len(seq)]

\* the converted value a record offers for a column, None when the record
\* lacks the column
ConvOf(data, c) ==
  IF c \in DOMAIN data THEN convert_value(c, data[c]) ELSE None

RowsWithKey(tbl, ticker, stac_yymm, period_type) ==
  {i \in 1..Len(tbl) : /\ tbl[i].ticker = ticker
                        /\ tbl[i].stac_yymm = stac_yymm
                        /\ tbl[i].period_type = period_type}

RecordsFor(data, stac_yymm) ==
  {i \in 1..Len(data) : stac_yymm_of(data[i]) = stac_yymm}

LabelsOf(data) == {stac_yymm_of(data[i]) : i \in 1..Len(data)} \ {NoLabel}

IsSave(e) == e.op \in {"save_financials", "save_quarterly_actuals"}

\* C1: after any sequence of annual and quarterly saves the table holds at
\* most one row for each (ticker, stac_yymm, period_type), and a save never
\* moves or re-keys a row that was there before it: an existing period is
\* updated in place.
C1_OneRowPerPeriod ==
  /\ \A i, j \in 1..Len(financial_statements) :
        (/\ financial_statements[i].ticker = financial_statements[j].ticker
         /\ financial_statements[i].stac_yymm
              = financial_statements[j].stac_yymm
         /\ financial_statements[i].period_type
              = financial_statements[j].period_type) => i = j
  /\ log # <<>> =>
        LET old == Last(log).before
        IN  /\ Len(old) <= Len(financial_statements)
            /\ \A i \in 1..Len(old) :
                  /\ financial_statements[i].ticker = old[i].ticker
                  /\ financial_statements[i].stac_yymm = old[i].stac_yymm
                  /\ financial_statements[i].period_type = old[i].period_type

\* a period was ingested again by a later save and has one row
C1_Witness ==
  \E a, b \in 1..Len(log) :
     /\ a < b
     /\ IsSave(log[a]) /\ IsSave(log[b])
     /\ ~log[a].raised /\ ~log[b].raised
     /\ log[a].ticker = log[b].ticker
     /\ log[a].period_type = log[b].period_type
     /\ \E l \in LabelsOf(log[a].data) \cap LabelsOf(log[b].data) :
           Cardinality(RowsWithKey(financial_statements, log[a].ticker, l,
                                   log[a].period_type)) = 1

\* two successive annual saves of the same ticker that both carry the
\* period l once, the period being new to the table before the first
TwoAnnualSaves(first, second, l) ==
  /\ first.op = "save_financials" /\ second.op = "save_financials"
  /\ first.period_type = "Y" /\ second.period_type = "Y"
  /\ first.ticker = second.ticker
  /\ ~first.raised /\ ~second.raised
  /\ Cardinality(RecordsFor(first.data, l)) = 1
  /\ Cardinality(RecordsFor(second.data, l)) = 1
  /\ RowsWithKey(first.before, first.ticker, l, "Y") = {}

TheRecord(data, l) == data[CHOOSE i \in RecordsFor(data, l) : TRUE]

\* C2: after two successive annual saves of the same ticker and period
\* there is exactly one ANNUAL row for it, and each column holds the second
\* call's converted value when that is not null, otherwise the first call's.
C2_UnionOfTwoSaves ==
  Len(log) >= 2 =>
    LET first  == log[Len(log) - 1]
        second == log[Len(log)]
    IN  \A l \in LabelsOf(first.data) :
          TwoAnnualSaves(first, second, l) =>
            LET rows == RowsWithKey(financial_statements, first.ticker, l, "Y")
                d1   == TheRecord(first.data, l)
                d2   == TheRecord(second.data, l)
            IN  /\ Cardinality(rows) = 1
                /\ \A i \in rows : \A c \in valid_columns :
                      financial_statements[i].cols[c]
                        = IF ConvOf(d2, c) # None THEN ConvOf(d2, c)
                          ELSE ConvOf(d1, c)

\* two such saves with different field sets, the row holding a value only
\* the first call supplied and a value only the second call supplied
C2_Witness ==
  /\ Len(log) >= 2
  /\ \E l \in LabelsOf(log[Len(log) - 1].data) :
        /\ TwoAnnualSaves(log[Len(log) - 1], log[Len(log)], l)
        /\ LET d1 == TheRecord(log[Len(log) - 1].data, l)
               d2 == TheRecord(log[Len(log)].data, l)
           IN  /\ DOMAIN d1 # DOMAIN d2
               /\ \E i \in RowsWithKey(financial_statements,
                                        log[Len(log)].ticker, l, "Y") :
                     \E c1, c2 \in valid_columns :
                        /\ ConvOf(d1, c1) # None /\ ConvOf(d2, c1) = None
                        /\ ConvOf(d2, c2) # None /\ ConvOf(d1, c2) = None
                        /\ financial_statements[i].cols[c1] = ConvOf(d1, c1)
                        /\ financial_statements[i].cols[c2] = ConvOf(d2, c2)

\* the last save offers no usable value for column c of the row: it is for
\* another key, or every record it carries for the row's period lacks the
\* column or holds None, an empty string or text that fails conversion
NothingUsable(e, row, c) ==
  \/ e.ticker # row.ticker
  \/ e.period_type # row.period_type
  \/ \A i \in RecordsFor(e.data, row.stac_yymm) : ConvOf(e.data[i], c) = None

\* C3: a save that updates an existing row leaves every column for which it
\* brings no usable value as it was, and never turns a stored value into
\* null.
C3_UpdateKeepsFields ==
  (log # <<>> /\ IsSave(Last(log))) =>
    LET e   == Last(log)
        old == e.before
    IN  \A i \in 1..Len(old) : \A c \in valid_columns :
          /\ old[i].cols[c] # None => financial_statements[i].cols[c] # None
          /\ NothingUsable(e, old[i], c) =>
                financial_statements[i].cols[c] = old[i].cols[c]

\* a quarterly save has updated an existing row for which it carried a
\* column with an empty string and a column with malformed text, both
\* stored before, and changed another column of the row
C3_Witness ==
  /\ log # <<>>
  /\ Last(log).op = "save_quarterly_actuals"
  /\ ~Last(log).raised
  /\ \E i \in 1..Len(Last(log).before) :
        LET old == Last(log).before[i]
        IN  /\ old.ticker = Last(log).ticker /\ old.period_type = "Q"
            /\ \E k \in RecordsFor(Last(log).data, old.stac_yymm) :
                  LET d == Last(log).data[k]
                  IN  \E c1, c2 \in DOMAIN d \cap valid_columns :
                         /\ d[c1].k = "str" /\ Strip(d[c1].s) = <<>>
                         /\ d[c2].k = "str" /\ Strip(d[c2].s) # <<>>
                         /\ ConvOf(d, c2) = None
                         /\ old.cols[c1] # None /\ old.cols[c2] # None
                         /\ financial_statements[i].cols[c1] = old.cols[c1]
                         /\ financial_statements[i].cols[c2] = old.cols[c2]

----------------------------------------------------------------------------
(* Properties of the quarterly actuals and of the TTM calculation (C4-C8) *)

\* year_data of one year's four quarters, in ascending order
FourQuarters(data) ==
  /\ Len(data) = TTMQuarters
  /\ \A i \in 1..Len(data) : stac_yymm_of(data[i]) # NoLabel
  /\ \A i \in 1..(Len(data) - 1) :
        /\ stac_yymm_of(data[i]) < stac_yymm_of(data[i + 1])
        /\ stac_yymm_of(data[i]) \div 100 = stac_yymm_of(data[i + 1]) \div 100

\* every quarter of data reports a cumulative value of field f
Reported(data, f) == \A i \in 1..Len(data) : ConvOf(data[i], f) # None

StoredValue(ticker, stac_yymm, period_type, c) ==
  LET rows == RowsWithKey(financial_statements, ticker, stac_yymm, period_type)
  IN  IF Cardinality(rows) = 1
      THEN financial_statements[CHOOSE i \in rows : TRUE].cols[c]
      ELSE None

\* C4: when a year's four quarters report cumulative values C1..C4 of a
\* cumulative-flow field, the quarterly save stores A1 = C1, A2 = C2 - C1,
\* A3 = C3 - C2, A4 = C4 - C3, hence A1 + A2 + A3 + A4 = C4.
C4_QuarterlyActuals ==
  (/\ log # <<>>
   /\ Last(log).op = "save_quarterly_actuals"
   /\ ~Last(log).raised
   /\ FourQuarters(Last(log).data)) =>
    LET e == Last(log)
        A(i, f) == StoredValue(e.ticker, stac_yymm_of(e.data[i]), "Q", f)
        C(i, f) == ConvOf(e.data[i], f)[1]
    IN  \A f \in cumulative_fields :
          Reported(e.data, f) =>
            /\ A(1, f) = Some(C(1, f))
            /\ \A i \in 2..4 : A(i, f) = Some(C(i, f) - C(i - 1, f))
            /\ A(1, f)[1] + A(2, f)[1] + A(3, f)[1] + A(4, f)[1] = C(4, f)

\* such a save has stored a fourth-quarter net income that differs from the
\* cumulative value and from the difference to the derived third quarter
C4_Witness ==
  /\ log # <<>>
  /\ Last(log).op = "save_quarterly_actuals"
  /\ ~Last(log).raised
  /\ FourQuarters(Last(log).data)
  /\ Reported(Last(log).data, "thtr_ntin")
  /\ LET e  == Last(log)
         a3 == StoredValue(e.ticker, stac_yymm_of(e.data[3]), "Q", "thtr_ntin")
         a4 == StoredValue(e.ticker, stac_yymm_of(e.data[4]), "Q", "thtr_ntin")
         c4 == ConvOf(e.data[4], "thtr_ntin")
     IN  /\ a3 # None /\ a4 # None
         /\ a4 # c4
         /\ a4[1] # c4[1] - a3[1]

RECURSIVE SumOver(_, _)
\* the sum of column col (null counted as 0) over the rows ids
SumOver(ids, col) ==
  IF ids = {} THEN 0
  ELSE LET i == CHOOSE x \in ids : TRUE
       IN  OrZero(financial_statements[i].cols[col]) + SumOver(ids \ {i}, col)

QuarterRows(ticker, base) ==
  {i \in 1..Len(financial_statements) :
     /\ financial_statements[i].ticker = ticker
     /\ financial_statements[i].period_type = "Q"
     /\ financial_statements[i].stac_yymm <= base}

\* the rows of QuarterRows with fewer than four later rows in it
MostRecentFour(ticker, base) ==
  {i \in QuarterRows(ticker, base) :
     Cardinality({j \in QuarterRows(ticker, base) :
                    financial_statements[j].stac_yymm
                      > financial_statements[i].stac_yymm}) < TTMQuarters}

\* the base quarter of a call: as_of_date, or the latest quarterly label
\* (NoLabel when the ticker has no quarterly row)
BaseOf(ticker, as_of_date) ==
  IF as_of_date # None THEN as_of_date[1]
  ELSE LET ls == {financial_statements[i].stac_yymm :
                    i \in {j \in 1..Len(financial_statements) :
                             /\ financial_statements[j].ticker = ticker
                             /\ financial_statements[j].period_type = "Q"}}
       IN  IF ls = {} THEN NoLabel
           ELSE CHOOSE l \in ls : \A m \in ls : l >= m

\* log[i] ingested a year's four quarters with reported net income through
\* the quarterly path and no later save of the ticker touched these periods
FullYearIngested(i, ticker) ==
  /\ log[i].op = "save_quarterly_actuals"
  /\ log[i].ticker = ticker
  /\ ~log[i].raised
  /\ FourQuarters(log[i].data)
  /\ Reported(log[i].data, "thtr_ntin")
  /\ \A j \in (i + 1)..Len(log) :
        (IsSave(log[j]) /\ log[j].ticker = ticker /\ ~log[j].raised) =>
           LabelsOf(log[j].data) \cap LabelsOf(log[i].data) = {}

IsTTM == result.op = "calculate_ttm_valuation"

\* C5: a successful TTM calculation sums sales, operating income and net
\* income over exactly the four most recent QUARTERLY rows of the ticker
\* with stac_yymm <= the base quarter; after a year's four cumulative
\* quarters C1..C4 went through the quarterly save, the TTM net income as of
\* that year's fourth quarter is C4.
C5_TTMSums ==
  IsTTM =>
    /\ result.status = "success" =>
          LET four == MostRecentFour(result.ticker, result.base_quarter[1])
          IN  /\ Cardinality(four) = TTMQuarters
              /\ {result.quarters_used[k] : k \in 1..Len(result.quarters_used)}
                   = {financial_statements[i].stac_yymm : i \in four}
              /\ result.ttm[1].sales = SumOver(four, "sale_account")
              /\ result.ttm[1].operating_income = SumOver(four, "bsop_prti")
              /\ result.ttm[1].net_income = SumOver(four, "thtr_ntin")
    /\ \A i \in 1..Len(log) :
          (/\ FullYearIngested(i, result.ticker)
           /\ BaseOf(result.ticker, result.as_of_date)
                = stac_yymm_of(log[i].data[4])) =>
             /\ result.status = "success"
             /\ result.ttm[1].net_income
                  = ConvOf(log[i].data[4], "thtr_ntin")[1]

\* the TTM as of the fourth quarter of a year ingested in full, computed
\* while the ticker has more than four quarterly rows
C5_Witness ==
  /\ IsTTM
  /\ result.status = "success"
  /\ Cardinality(QuarterRows(result.ticker, result.base_quarter[1]))
       > TTMQuarters
  /\ \E i \in 1..Len(log) :
        /\ FullYearIngested(i, result.ticker)
        /\ result.base_quarter = Some(stac_yymm_of(log[i].data[4]))
        /\ result.ttm[1].net_income = ConvOf(log[i].data[4], "thtr_ntin")[1]
        /\ result.ttm[1].net_income # 0

\* C6: with fewer than four QUARTERLY rows at or before the base quarter
\* the TTM calculation returns an error that carries no sums, EPS or PER.
C6_InsufficientQuarters ==
  IsTTM =>
    (Cardinality(QuarterRows(result.ticker,
                             BaseOf(result.ticker, result.as_of_date)))
       < TTMQuarters
     => /\ result.status = "error"
        /\ result.ttm = None)

\* a TTM calculation over exactly three quarterly rows has returned the
\* error
C6_Witness ==
  /\ IsTTM
  /\ Cardinality(QuarterRows(result.ticker,
                             BaseOf(result.ticker, result.as_of_date))) = 3
  /\ result.status = "error"
  /\ result.ttm = None

\* paid-in capital of the latest quarter used by a successful result
LatestCpfn ==
  StoredValue(result.ticker, result.quarters_used[1], "Q", "cpfn")

SharesPositive == LatestCpfn # None /\ LatestCpfn[1] > 0

Abs(x) == IF x < 0 THEN 0 - x ELSE x

\* h hundredths is num / den rounded to the nearest hundredth (den > 0)
NearestHundredth(h, num, den) == 2 * Abs(h * den - Scale * num) <= den

\* C7 as stated: per is non-null only with a price and a positive EPS and
\* then equals price / eps_ttm; for null, zero or negative EPS it is null.
C7_PerExact ==
  (IsTTM /\ result.status = "success") =>
    LET net == result.ttm[1].net_income
        per == result.ttm[1].per
    IN  /\ per # None =>
              /\ result.current_price # None
              /\ SharesPositive /\ net > 0
              /\ per[1] * (ParValue * net)
                   = Scale * result.current_price[1] * LatestCpfn[1]
        /\ (~SharesPositive \/ net <= 0) => per = None

\* C7 amended: per is non-null only with a price and a positive EPS and
\* then equals price / eps_ttm rounded to two decimals; for null, zero or
\* negative EPS it is null.
C7_PerRounded ==
  (IsTTM /\ result.status = "success") =>
    LET net == result.ttm[1].net_income
        per == result.ttm[1].per
    IN  /\ per # None =>
              /\ result.current_price # None
              /\ SharesPositive /\ net > 0
              /\ NearestHundredth(per[1],
                                  result.current_price[1] * LatestCpfn[1],
                                  ParValue * net)
        /\ (~SharesPositive \/ net <= 0) => per = None

\* a PER that is price / eps_ttm only after rounding
C7_Witness ==
  /\ IsTTM /\ result.status = "success"
  /\ result.ttm[1].per # None
  /\ result.ttm[1].per[1] * (ParValue * result.ttm[1].net_income)
       # Scale * result.current_price[1] * LatestCpfn[1]

\* C8: the reported eps is net_income_ttm / shares_outstanding (to the
\* cent) whenever shares_outstanding = cpfn / 5000 is positive, for every
\* net income including zero and negative ones, and is null exactly when
\* shares_outstanding is not positive or cpfn is missing.
C8_EpsReported ==
  (IsTTM /\ result.status = "success") =>
    LET net == result.ttm[1].net_income
        eps == result.ttm[1].eps
    IN  /\ SharesPositive =>
              /\ eps # None
              /\ NearestHundredth(eps[1], net * ParValue, LatestCpfn[1])
        /\ eps = None <=> ~SharesPositive

----------------------------------------------------------------------------
(* Properties of screening (C9, C10) *)

IsScreen == result.op = "screen_stocks"

\* the cache row of ticker t passes the filters f that are given and has
\* both PER and PBR
Qualifies(t, f) ==
  /\ stock_valuation_cache[t] # None
  /\ LET row == stock_valuation_cache[t][1]
     IN  /\ row.per # None /\ row.pbr # None
         /\ f.min_per # None => row.per[1] >= f.min_per[1]
         /\ f.max_per # None => row.per[1] <= f.max_per[1]
         /\ f.min_pbr # None => row.pbr[1] >= f.min_pbr[1]
         /\ f.max_pbr # None => row.pbr[1] <= f.max_pbr[1]
         /\ f.min_roe # None =>
               (row.roe_val # None /\ row.roe_val[1] >= f.min_roe[1])

Qualifying(f) == {t \in Tickers : Qualifies(t, f)}

Returned == {result.items[i].ticker : i \in 1..Len(result.items)}

\* C9: screen returns cache rows that pass every given filter and have PER
\* and PBR, each once and with the cached ratios, and it returns all of them
\* unless the limit cuts the list; a row without PER or PBR is never
\* returned.
C9_ScreenFilters ==
  IsScreen =>
    /\ Returned \subseteq Qualifying(result.filters)
    /\ Cardinality(Returned) = Len(result.items)
    /\ Len(result.items) < result.limit =>
          Returned = Qualifying(result.filters)
    /\ \A i \in 1..Len(result.items) :
          LET row == stock_valuation_cache[result.items[i].ticker][1]
          IN  /\ result.items[i].per = row.per /\ row.per # None
              /\ result.items[i].pbr = row.pbr /\ row.pbr # None

\* the cache of the scenario, {PER 8, ROE 12}, {PER 15, ROE 20} and
\* {PER null, ROE 11}, screened with maxPER = 10 and minROE = 10 under a
\* limit that does not cut: only the first row is returned
C9_Witness ==
  /\ IsScreen
  /\ result.filters =
       [NoFilter EXCEPT !.max_per = Some(1000), !.min_roe = Some(1000)]
  /\ Len(result.items) = 1
  /\ Len(result.items) < result.limit
  /\ result.items[1].per = Some(800)
  /\ result.items[1].roe_val = Some(1200)
  /\ \E t, u \in Tickers :
        /\ stock_valuation_cache[t] # None /\ stock_valuation_cache[u] # None
        /\ stock_valuation_cache[t][1].per = Some(1500)
        /\ stock_valuation_cache[t][1].roe_val = Some(2000)
        /\ stock_valuation_cache[u][1].per = None
        /\ stock_valuation_cache[u][1].roe_val = Some(1100)

\* C10: the returned list is ordered by PER ascending and has at most
\* `limit` elements; when more than `limit` rows qualify it has `limit`
\* elements and no qualifying row left out has a smaller PER than a
\* returned one.
C10_ScreenOrder ==
  IsScreen =>
    /\ Len(result.items) <= result.limit
    /\ \A i \in 1..(Len(result.items) - 1) :
          result.items[i].per[1] <= result.items[i + 1].per[1]
    /\ Cardinality(Qualifying(result.filters)) > result.limit =>
          /\ Len(result.items) = result.limit
          /\ \A i \in 1..Len(result.items) :
                \A t \in Qualifying(result.filters) \ Returned :
                   result.items[i].per[1] <= stock_valuation_cache[t][1].per[1]

\* three rows qualify under limit 2: the two of smaller PER are returned in
\* ascending order and the one left out has a larger PER
C10_Witness ==
  /\ IsScreen
  /\ Cardinality(Qualifying(result.filters)) > result.limit
  /\ Len(result.items) = 2
  /\ result.items[1].per[1] < result.items[2].per[1]
  /\ \E t \in Qualifying(result.filters) \ Returned :
        result.items[2].per[1] < stock_valuation_cache[t][1].per[1]

----------------------------------------------------------------------------
(* merge_financial_data.  The six slices are lists of dicts; a dict is an  *)
(* object, so the merge works on a heap: heap[id] is the dict with that id *)
(* and a list is a sequence of ids.                                       *)

RECURSIVE flatten(_, _)
\* the dicts of sources[n..], slice after slice
flatten(sources, n) ==
  IF n > Len(sources) THEN <<>>
  ELSE sources[n] \o flatten(sources, n + 1)

\* the id of item i of slice n when the slices are laid out in the heap
item_id(sources, n, i) == Len(flatten(SubSeq(sources, 1, n - 1), 1)) + i

\* mutant: a key the record holds already keeps its value
dict_update_keep(old, item) ==
  [k \in DOMAIN old \cup DOMAIN item |->
     IF k \in DOMAIN old THEN old[k] ELSE item[k]]

\* old.update(item): the keys of item overwrite, None values included
dict_update(old, item) ==
  [k \in DOMAIN old \cup DOMAIN item |->
     IF k \in DOMAIN item THEN item[k] ELSE old[k]]

\* `yymm in merged`: the position of the entry of that label, 0 when absent
merged_index(m, yymm) ==
  IF \E i \in 1..Len(m.merged) : m.heap[m.merged[i]].stac_yymm = yymm
  THEN CHOOSE i \in 1..Len(m.merged) : m.heap[m.merged[i]].stac_yymm = yymm
  ELSE 0

\* mutant: merged[yymm] = item, without the copy
merge_item_alias(m, id, at) ==
  IF at # 0
  THEN [m EXCEPT !.heap[m.merged[at]] = dict_update(@, m.heap[id])]
  ELSE [m EXCEPT !.merged = Append(@, id)]

\* merged[yymm].update(item) for a label seen before (at its position),
\* merged[yymm] = item.copy() for a new one: the copy is a new object
merge_item(m, id, at) ==
  IF at # 0
  THEN [m EXCEPT !.heap[m.merged[at]] = dict_update(@, m.heap[id])]
  ELSE [heap   |-> Append(m.heap, m.heap[id]),
        merged |-> Append(m.merged, Len(m.heap) + 1)]

RECURSIVE merge_source(_, _, _, _)
\* `for item in source`, from item i on; items without a label are skipped
merge_source(m, sources, n, i) ==
  IF i > Len(sources[n]) THEN m
  ELSE merge_source(
         IF stac_yymm_of(sources[n][i]) = NoLabel THEN m
         ELSE merge_item(m, item_id(sources, n, i),
                         merged_index(m, stac_yymm_of(sources[n][i]))),
         sources, n, i + 1)

RECURSIVE merge_sources(_, _, _)
\* `for source in sources`, from slice n on
merge_sources(m, sources, n) ==
  IF n > Len(sources) THEN m
  ELSE merge_sources(merge_source(m, sources, n, 1), sources, n + 1)

RECURSIVE sorted_by_stac_yymm(_, _, _)
\* sorted(items, key=stac_yymm, reverse=reverse) over the positions ids:
\* a stable sort, equal labels keep their order
sorted_by_stac_yymm(items, ids, reverse) ==
  IF ids = {} THEN <<>>
  ELSE LET first == CHOOSE i \in ids : \A j \in ids :
                      \/ (IF reverse
                          THEN items[i].stac_yymm > items[j].stac_yymm
                          ELSE items[i].stac_yymm < items[j].stac_yymm)
                      \/ items[i].stac_yymm = items[j].stac_yymm /\ i <= j
       IN  <<items[first]>> \o sorted_by_stac_yymm(items, ids \ {first},
                                                   reverse)

\* what the merge leaves: the sorted list it returns and the six slices as
\* they are afterwards
merge_outcome(m, sources) ==
  [sorted_data |-> sorted_by_stac_yymm(
                     [i \in 1..Len(m.merged) |-> m.heap[m.merged[i]]],
                     1..Len(m.merged), TRUE),
   sources |-> [n \in 1..Len(sources) |->
                  [i \in 1..Len(sources[n]) |->
                     m.heap[item_id(sources, n, i)]]]]

\* merge_financial_data(balance_sheets, income_statements, financial_ratios,
\* profit_ratios, other_ratios, growth_ratios) with sources the six lists
merge_financial_data(sources) ==
  merge_outcome(merge_sources([heap |-> flatten(sources, 1),
                               merged |-> <<>>], sources, 1),
                sources)

----------------------------------------------------------------------------
(* collect_and_save and collect_and_save_quarterly.  An outcome is         *)
(* [raised, table, result, calls]: whether the call ended in an exception, *)
(* the table it leaves, the dict it returns and the calls it made to the   *)
(* upstream client.                                                        *)

\* the six collect_* methods in the order they are awaited
FetchNames ==
  <<"collect_balance_sheet", "collect_income_statement",
    "collect_financial_ratios", "collect_profit_ratios",
    "collect_other_major_ratios", "collect_growth_ratios">>

six_fetches(ticker, period_type) ==
  [n \in 1..Len(FetchNames) |->
     [call |-> FetchNames[n], ticker |-> ticker,
      period_type |-> period_type]]

\* the dict an ingestion returns; message, period_type and periods
\* (total_periods, quarters_collected) are "" and 0 where the dict has no
\* such key
ingest_result(ticker, status, message, period_type, periods, saved) ==
  [ticker |-> ticker, status |-> status, message |-> message,
   period_type |-> period_type, periods |-> periods, saved |-> saved]

\* a call that ended in an exception returns nothing
NoReturn ==
  [ticker |-> "", status |-> "raised", message |-> "", period_type |-> "",
   periods |-> 0, saved |-> 0]

\* the end of an ingestion whose save returned r = [raised, table, saved]
ingest_saved(ticker, pchar, periods, r) ==
  [raised |-> r.raised, table |-> r.table,
   result |-> IF r.raised THEN NoReturn
              ELSE ingest_result(ticker, "success", "", pchar, periods,
                                 r.saved)]

\* an ingestion that returns without a save
ingest_unsaved(tbl, ticker, status, message) ==
  [raised |-> FALSE, table |-> tbl,
   result |-> ingest_result(ticker, status, message, "", 0, 0)]

\* the annual branch of collect_and_save from the merge on
collect_annual(tbl, stks, ticker, period_type, merged_data) ==
  IF merged_data = <<>>
  THEN ingest_unsaved(tbl, ticker, "no_data", "No financial data returned")
  ELSE ingest_saved(ticker, "Y", Len(merged_data),
                    save_financials(tbl, stks, ticker, period_type,
                                    merged_data))

\* max_quarter of collect_and_save_quarterly: (current_month - 1) // 3 + 1
\* for the current year, 4 otherwise.  The function uses it in its log line
\* only.
max_quarter(year, now) ==
  IF year = now.year THEN (now.month - 1) \div 3 + 1 ELSE 4

\* mutant: no filter on the year
year_data_of_all(merged_data, year) ==
  sorted_by_stac_yymm(merged_data, 1..Len(merged_data), FALSE)

\* year_data: the items of merged_data whose label starts with the year,
\* sorted by label ascending
year_data_of(merged_data, year) ==
  sorted_by_stac_yymm(merged_data,
                      {i \in 1..Len(merged_data) :
                         merged_data[i].stac_yymm \div 100 = year},
                      FALSE)

\* collect_and_save_quarterly from the year filter on
collect_year(tbl, stks, ticker, year_data) ==
  IF year_data = <<>>
  THEN ingest_unsaved(tbl, ticker, "no_data", "No data for year")
  ELSE ingest_saved(ticker, "Q", Len(year_data),
                    save_quarterly_actuals(tbl, stks, ticker, year_data))

\* collect_and_save_quarterly(db, ticker, year) from the merge on; now is
\* datetime.now() as [year, month]
collect_and_save_quarterly(tbl, stks, ticker, year, now, merged_data) ==
  IF merged_data = <<>>
  THEN ingest_unsaved(tbl, ticker, "no_data", "No quarterly data returned")
  ELSE collect_year(tbl, stks, ticker, year_data_of(merged_data, year))

\* an outcome o and the upstream calls made on the way to it
with_calls(o, made) ==
  [raised |-> o.raised, table |-> o.table, result |-> o.result,
   calls |-> made]

\* mutant: the directory is not asked
stock_found_unchecked(stks, ticker) == TRUE

\* db.query(Stock).filter(Stock.ticker == ticker).first() is not None
stock_found(stks, ticker) == ticker \in stks

\* collect_and_save(db, ticker, period_type, year): year is None or
\* Some(year), response the six lists the fetches return
collect_and_save(tbl, stks, ticker, period_type, year, now, response) ==
  IF ~stock_found(stks, ticker)
  THEN with_calls(ingest_unsaved(tbl, ticker, "error", "Stock not found"),
                  <<>>)
  ELSE IF period_type = "0"
  THEN with_calls(collect_annual(tbl, stks, ticker, period_type,
                     merge_financial_data(response).sorted_data),
                  six_fetches(ticker, period_type))
  ELSE with_calls(collect_and_save_quarterly(tbl, stks, ticker,
                     IF year = None THEN now.year ELSE year[1], now,
                     merge_financial_data(response).sorted_data),
                  six_fetches(ticker, "1"))

----------------------------------------------------------------------------
(* Ingestion: upstream responses and the calls                             *)

\* a ticker the stocks directory does not hold
UnknownTicker == "999999"

\* no slice returns anything
EmptySlices == <<<<>>, <<>>, <<>>, <<>>, <<>>, <<>>>>

\* annual statements: two periods over three slices, a record without a
\* label, and a growth slice that repeats a key with None
AnnualSlices ==
  <<<<[stac_yymm |-> 202412, cpfn |-> RStr(<<"5", ",", "0", "0", "0">>)],
      [stac_yymm |-> 202312, cpfn |-> RStr(<<"5", ",", "0", "0", "0">>)]>>,
    <<[stac_yymm |-> 202412, sale_account |-> RStr(<<"1", "0", "0", "0">>), thtr_ntin |-> RStr(<<"7", "0", "0">>)],
      [stac_yymm |-> 202312, thtr_ntin |-> RStr(<<"5", "0", "0">>)]>>,
    <<[stac_yymm |-> 202412, roe_val |-> RStr(<<"1", "2", ".", "5">>)],
      [roe_val |-> RStr(<<"9", ".", "9">>)]>>,
    <<>>,
    <<>>,
    <<[stac_yymm |-> 202412, thtr_ntin |-> RNone]>>>>

\* only the ratio slice answers, with one period twice
RatioSlices ==
  <<<<>>, <<>>,
    <<[stac_yymm |-> 202412, roe_val |-> RStr(<<"1", "2", ".", "5">>)],
      [stac_yymm |-> 202412, roe_val |-> RStr(<<"1", "3">>)]>>,
    <<>>, <<>>, <<>>>>

\* quarterly statements, cumulative within a year, latest first
QuarterSlices ==
  <<<<[stac_yymm |-> 202509, cpfn |-> RStr(<<"5", ",", "0", "0", "0">>)],
      [stac_yymm |-> 202506, cpfn |-> RStr(<<"5", ",", "0", "0", "0">>)],
      [stac_yymm |-> 202503, cpfn |-> RStr(<<"5", ",", "0", "0", "0">>)]>>,
    <<[stac_yymm |-> 202509, thtr_ntin |-> RStr(<<"1", "9", "5", "0">>)],
      [stac_yymm |-> 202506, thtr_ntin |-> RStr(<<"1", ",", "2", "0", "0">>)],
      [stac_yymm |-> 202503, thtr_ntin |-> RStr(<<"5", "0", "0">>)],
      [stac_yymm |-> 202412, thtr_ntin |-> RStr(<<"9", "0", "0">>)],
      [stac_yymm |-> 202409, thtr_ntin |-> RStr(<<"6", "0", "0">>)]>>,
    <<>>, <<>>, <<>>, <<>>>>

\* datetime.now() of the calls
InMay == [year |-> 2025, month |-> 5]

InNovember == [year |-> 2025, month |-> 11]

\* collect_and_save calls: <<ticker, period_type, year, now, response>>
IngestCalls ==
  {<<"005930", "0", None, InMay, AnnualSlices>>,
   <<"000660", "0", None, InMay, AnnualSlices>>,
   <<"005930", "0", None, InMay, RatioSlices>>,
   <<"005930", "0", None, InMay, EmptySlices>>,
   <<UnknownTicker, "0", None, InMay, AnnualSlices>>,
   <<UnknownTicker, "1", Some(2025), InMay, QuarterSlices>>,
   <<"005930", "1", None, InMay, QuarterSlices>>,
   <<"005930", "1", Some(2025), InNovember, QuarterSlices>>,
   <<"005930", "1", Some(2024), InNovember, QuarterSlices>>,
   <<"005930", "1", Some(2023), InNovember, QuarterSlices>>,
   <<"005930", "1", None, InNovember, EmptySlices>>}

\* the effect of an ingestion with outcome o
Collected(ticker, period_type, year, now, response, o) ==
  /\ Len(log) < MaxOps
  /\ financial_statements' = o.table
  /\ result' = [op |-> "collect_and_save", ticker |-> ticker,
                period_type |-> period_type,
                year |-> IF year = None THEN now.year ELSE year[1],
                now |-> now, raised |-> o.raised, returned |-> o.result]
  /\ calls' = o.calls
  /\ log' = Append(log, [op |-> "collect_and_save", ticker |-> ticker,
                         period_type |-> period_char(period_type),
                         data |-> response,
                         before |-> financial_statements,
                         raised |-> o.raised])
  /\ UNCHANGED <<stock_prices, stock_valuation_cache, stocks, sessions>>

\* collect_and_save(db, ticker, period_type, year) at time now, the upstream
\* answering with response
CollectAndSave(ticker, period_type, year, now, response) ==
  Collected(ticker, period_type, year, now, response,
            collect_and_save(financial_statements, stocks, ticker,
                             period_type, year, now, response))

\* merge_financial_data on the six lists of a response
MergeFinancialData(response) ==
  /\ result' = [op |-> "merge_financial_data", sources |-> response,
                merged |-> merge_financial_data(response)]
  /\ UNCHANGED <<financial_statements, stock_prices, stock_valuation_cache,
                 stocks, log, calls, sessions>>

\* ingestion through collect_and_save
NextIngest ==
  \/ \E c \in IngestCalls : CollectAndSave(c[1], c[2], c[3], c[4], c[5])
  \/ \E c \in IngestCalls : MergeFinancialData(c[5])

SpecIngest == Init /\ [][NextIngest]_vars

----------------------------------------------------------------------------
(* Claims about ingestion *)

IsCollect == result.op = "collect_and_save"

\* C11: an ingestion (annual or quarterly) of a ticker the stocks directory
\* does not hold returns an error result with saved = 0, issues none of the
\* six fetches and leaves the financial_statements table as it was.
C11_UnknownTicker ==
  (IsCollect /\ result.ticker \notin stocks) =>
     /\ ~result.raised
     /\ result.returned.status = "error"
     /\ result.returned.saved = 0
     /\ calls = <<>>
     /\ financial_statements = Last(log).before

\* a quarterly ingestion of an unknown ticker into a table that has rows
C11_Witness ==
  /\ IsCollect
  /\ result.ticker \notin stocks
  /\ result.period_type = "1"
  /\ financial_statements # <<>>

\* the calls of the last ingestion that refresh the valuation cache of t
RefreshCalls(t) ==
  {i \in 1..Len(calls) : /\ calls[i].call = "update_valuation_cache"
                         /\ calls[i].ticker = t}

\* C12: an annual ingestion that ends with status success and at least one
\* record saved has triggered a valuation-cache refresh for its ticker.
C12_RefreshAfterAnnual ==
  (/\ IsCollect
   /\ result.period_type = "0"
   /\ ~result.raised
   /\ result.returned.status = "success"
   /\ result.returned.saved >= 1) => RefreshCalls(result.ticker) # {}

\* the quarter a label YYYYMM closes: 03 -> 1, 06 -> 2, 09 -> 3, 12 -> 4
QuarterOf(stac_yymm) == ((stac_yymm % 100) + 2) \div 3

\* the rows the last write call added or changed
Written ==
  {i \in 1..Len(financial_statements) :
     \/ i > Len(Last(log).before)
     \/ Last(log).before[i] # financial_statements[i]}

\* C17: a quarterly ingestion for the current calendar year writes no
\* QUARTERLY row of that year for a quarter later than
\* maxQuarter = ceil(currentMonth / 3), whatever the upstream returns.
C17_MaxQuarter ==
  (/\ IsCollect
   /\ result.period_type = "1"
   /\ result.year = result.now.year) =>
     \A i \in Written :
        (/\ financial_statements[i].ticker = result.ticker
         /\ financial_statements[i].period_type = "Q"
         /\ financial_statements[i].stac_yymm \div 100 = result.year)
        => QuarterOf(financial_statements[i].stac_yymm)
             <= max_quarter(result.year, result.now)

IsMerge == result.op = "merge_financial_data"

\* the labels that occur in the records of the six slices
LabelsIn(sources) ==
  UNION {{stac_yymm_of(sources[n][i]) : i \in 1..Len(sources[n])} :
           n \in 1..Len(sources)} \ {NoLabel}

\* the places <<slice, item>> at which label l occurs in the six slices
Occurrences(sources, l) ==
  UNION {{<<n, i>> : i \in {j \in 1..Len(sources[n]) :
                               stac_yymm_of(sources[n][j]) = l}} :
           n \in 1..Len(sources)}

\* C18: merging the same six slices again yields the same output, the
\* output holds exactly one record per distinct label of the inputs, and
\* the slices and their records are as they were before the merge.
C18_MergeDeterministic ==
  IsMerge =>
    /\ result.merged.sources = result.sources
    /\ merge_financial_data(result.merged.sources).sorted_data
         = result.merged.sorted_data
    /\ \A l \in LabelsIn(result.sources) :
          Cardinality({i \in 1..Len(result.merged.sorted_data) :
                         result.merged.sorted_data[i].stac_yymm = l}) = 1
    /\ \A i \in 1..Len(result.merged.sorted_data) :
          result.merged.sorted_data[i].stac_yymm \in LabelsIn(result.sources)

\* a merge of slices in which one label occurs in several records and
\* another label occurs as well
C18_Witness ==
  /\ IsMerge
  /\ Len(result.merged.sorted_data) >= 2
  /\ \E l \in LabelsIn(result.sources) :
        Cardinality(Occurrences(result.sources, l)) >= 3

----------------------------------------------------------------------------
(* _convert_value on its own, and saves of records with non-finite text *)

\* keys of the three classes: bigint columns, a decimal column, and columns
\* of the table that are neither
ConvertKeys == {"cpfn", "thtr_ntin", "roe_val", "ticker", "period_type"}

\* strings that are empty or hold blanks only
BlankTexts == {<<>>, <<" ">>, <<" ", " ">>}

NumberTexts ==
  {<<"0">>, <<"1", "2">>, <<"1", ",", "2", "3", "4">>, <<"-", "5">>,
   <<"3", ".", "1", "4">>, <<" ", "4", "2", " ">>}

MalformedTexts ==
  {<<"a", "b", "c">>, <<"1", ".", "2", ".", "3">>, <<"-">>, <<",">>}

NonFiniteTexts == {<<"i", "n", "f">>, <<"-", "i", "n", "f">>, <<"n", "a", "n">>}

ConvertValues ==
  {RNone, RObj, RNum(0), RNum(7)}
    \cup {RStr(s) : s \in BlankTexts \cup NumberTexts
                            \cup MalformedTexts \cup NonFiniteTexts}

\* what a call of _convert_value gives its caller
convert_outcome(key, value, converted) ==
  [op |-> "convert_value", key |-> key, value |-> value,
   raised |-> converted = OverflowError,
   returned |-> IF converted = OverflowError THEN None ELSE converted]

\* _convert_value(key, value)
ConvertValue(key, value) ==
  /\ result' = convert_outcome(key, value, convert_value(key, value))
  /\ UNCHANGED <<financial_statements, stock_prices, stock_valuation_cache,
                 stocks, log, calls, sessions>>

\* a record whose second key holds "inf" for a bigint column
NonFinite1 ==
  <<[stac_yymm |-> 202412, cpfn |-> RStr(<<"5", "0", "0", "0">>), sale_account |-> RStr(<<"i", "n", "f">>), thtr_ntin |-> RStr(<<"7", "0", "0">>)]>>

\* two periods, the older one with "inf" for a decimal column
NonFinite2 ==
  <<[stac_yymm |-> 202412, cpfn |-> RStr(<<"6", "0", "0", "0">>)],
    [stac_yymm |-> 202312, cpfn |-> RStr(<<"4", "0", "0", "0">>), roe_val |-> RStr(<<"i", "n", "f">>)]>>

\* two periods, the newer one with "nan" and "-inf" for bigint columns
NonFinite3 ==
  <<[stac_yymm |-> 202412, sale_account |-> RStr(<<"n", "a", "n">>), thtr_ntin |-> RStr(<<"-", "i", "n", "f">>), roe_val |-> RStr(<<"9", ".", "5">>)],
    [stac_yymm |-> 202312, sale_account |-> RStr(<<"n", "a", "n">>), thtr_ntin |-> RStr(<<"6", "0", "0">>)]>>

NonFiniteCalls ==
  {<<"005930", "0", Annual1>>, <<"005930", "0", NonFinite1>>,
   <<"005930", "0", NonFinite2>>, <<"005930", "0", NonFinite3>>}

NextConv ==
  \/ \E key \in ConvertKeys, value \in ConvertValues : ConvertValue(key, value)
  \/ \E c \in NonFiniteCalls : SaveFinancials(c[1], c[2], c[3])

SpecConv == Init /\ [][NextConv]_vars

----------------------------------------------------------------------------
(* Claims about _convert_value *)

IsConvert == result.op = "convert_value"

\* None, the empty string, or a string of blanks
IsBlank(value) ==
  \/ value.k = "none"
  \/ value.k = "str" /\ \A i \in 1..Len(value.s) : value.s[i] = " "

\* C19: _convert_value returns None for None and for an empty or
\* whitespace-only string, for bigint, decimal and pass-through keys alike;
\* it returns neither 0 nor an empty string for such input.
C19_BlankIsNone ==
  (IsConvert /\ IsBlank(result.value)) =>
     (~result.raised /\ result.returned = None)

\* a whitespace-only string converted for a pass-through key
C19_Witness ==
  /\ IsConvert
  /\ result.key \notin bigint_fields \cup decimal_fields
  /\ result.value = RStr(<<" ", " ">>)
  /\ result.returned = None

\* the record of the last save, when it was a save_financials that committed
SavedRecords ==
  IF log # <<>> /\ Last(log).op = "save_financials" /\ ~Last(log).raised
  THEN {Last(log).data[i] : i \in 1..Len(Last(log).data)}
  ELSE {}

\* C20: _convert_value never raises and returns None for non-finite number
\* text for a bigint column; and when a save has committed, every field of
\* each of its records that converts to a number is stored in the record's
\* row, whatever the other fields of the record hold.
C20_NeverRaises ==
  /\ IsConvert => ~result.raised
  /\ (/\ IsConvert
      /\ result.key \in bigint_fields
      /\ result.value.k = "str"
      /\ result.value.s \in NonFiniteTexts) => result.returned = None
  /\ \A data \in SavedRecords : \A key \in DataKeys(data) :
        (/\ convert_value(key, data[key]) # None
         /\ convert_value(key, data[key]) # OverflowError)
        => \E i \in 1..Len(financial_statements) :
              /\ financial_statements[i].ticker = Last(log).ticker
              /\ financial_statements[i].stac_yymm = stac_yymm_of(data)
              /\ financial_statements[i].period_type = Last(log).period_type
              /\ financial_statements[i].cols[key]
                   = convert_value(key, data[key])

----------------------------------------------------------------------------
(* Claims about the commit of a save *)

IsAnnualSave == result.op = "save_financials" /\ Last(log).op = "save_financials"

\* the records of the last save that its loop counted: those with a label
\* whose conversion did not leave the loop body
CountedRecords ==
  {i \in 1..Len(Last(log).data) :
     /\ stac_yymm_of(Last(log).data[i]) # NoLabel
     /\ ~conversion_raises(Last(log).data[i])}

\* C16: the upserts of one save_financials call are committed together.
\* When the commit fails the error is raised to the caller and the table is
\* as it was before the call; when the call returns, its value is the
\* number of records counted and each of them has its row in the table.
C16_CommitTogether ==
  IsAnnualSave =>
     IF result.raised
     THEN financial_statements = Last(log).before
     ELSE /\ result.saved = Cardinality(CountedRecords)
          /\ \A i \in CountedRecords :
                \E r \in 1..Len(financial_statements) :
                   /\ financial_statements[r].ticker = Last(log).ticker
                   /\ financial_statements[r].stac_yymm
                        = stac_yymm_of(Last(log).data[i])
                   /\ financial_statements[r].period_type
                        = Last(log).period_type

\* a save of two records after an earlier save: its first record updated a
\* stored row, the write of its second record was refused, the error was
\* raised and the table is as it was before the call
C16_Witness ==
  /\ IsAnnualSave
  /\ result.raised
  /\ Len(Last(log).data) >= 2
  /\ Last(log).before # <<>>
  /\ \E r \in 1..Len(Last(log).before) :
        /\ Last(log).before[r].ticker = Last(log).ticker
        /\ Last(log).before[r].stac_yymm = stac_yymm_of(Last(log).data[1])
        /\ Last(log).before[r].period_type = Last(log).period_type
  /\ financial_statements = Last(log).before

----------------------------------------------------------------------------
(* update_all_valuation_cache with a limit *)

\* the number of rows a query with `if limit: query = query.limit(limit)`
\* returns: limit 0 stands for None, both are falsy
limited(n, limit) == IF limit = 0 \/ n < limit THEN n ELSE limit

\* db.query(Stock).filter(Stock.is_active == True).limit(limit).all(): the
\* query has no ORDER BY, so the rows come in any order; every stock of the
\* directory is active
select_stocks(stks, limit) ==
  {o \in [1..limited(Cardinality(stks), limit) -> stks] :
     \A i, j \in DOMAIN o : i # j => o[i] # o[j]}

\* update_valuation_cache(db, ticker) with its except branch: when the
\* procedure call fails the session is rolled back, the cache is as before
\* and the status is error
update_valuation_cache_or_error(tbl, prices, cache, ticker, ratios, fails) ==
  IF fails THEN [cache |-> cache, status |-> "error"]
  ELSE update_valuation_cache(tbl, prices, cache, ticker, ratios)

\* mutant: every refresh that did not fail is counted
is_success_lenient(status) == status # "error"

\* result["status"] == "success"
is_success(status) == status = "success"

\* one iteration of `for stock in stocks`, r what the refresh returned
refresh_one(acc, ticker, r) ==
  [cache |-> r.cache,
   success_count |-> acc.success_count + (IF is_success(r.status) THEN 1 ELSE 0),
   calls |-> Append(acc.calls, [call |-> "update_valuation_cache",
                                ticker |-> ticker, status |-> r.status])]

RECURSIVE refresh_loop(_, _, _, _, _, _, _)
refresh_loop(acc, tbl, prices, selected, ratios, faults, i) ==
  IF i > Len(selected) THEN acc
  ELSE refresh_loop(
         refresh_one(acc, selected[i],
                     update_valuation_cache_or_error(tbl, prices, acc.cache,
                                                     selected[i], ratios,
                                                     selected[i] \in faults)),
         tbl, prices, selected, ratios, faults, i + 1)

\* the dict returned by the limit branch
refresh_summary(selected, acc) ==
  [cache |-> acc.cache, calls |-> acc.calls,
   result |-> [status |-> "success", total_processed |-> Len(selected),
               success_count |-> acc.success_count]]

\* update_all_valuation_cache(db, limit) for limit >= 1 and the rows
\* selected: [cache, calls, result]
update_all_valuation_cache(tbl, prices, cache, selected, ratios, faults) ==
  refresh_summary(selected,
                  refresh_loop([cache |-> cache, success_count |-> 0,
                                calls |-> <<>>],
                               tbl, prices, selected, ratios, faults, 1))

\* the tickers whose procedure call fails during one refresh-all
RefreshFaults == {{}, {"000660"}}

\* ratios the cache procedure computes during one refresh-all
RefreshRatios == {r \in CacheRatios : r.pbr = Some(90) /\ r.roe_val = Some(1200)}

RefreshedAll(limit, selected, faults, o) ==
  /\ Len(log) < MaxOps
  /\ stock_valuation_cache' = o.cache
  /\ calls' = o.calls
  /\ result' = [op |-> "update_all_valuation_cache", limit |-> limit,
                selected |-> selected, faults |-> faults, raised |-> FALSE,
                returned |-> o.result]
  /\ log' = Append(log, [op |-> "update_all_valuation_cache", ticker |-> "",
                         period_type |-> "", data |-> <<>>,
                         before |-> financial_statements, raised |-> FALSE])
  /\ UNCHANGED <<financial_statements, stock_prices, stocks, sessions>>

\* update_all_valuation_cache(db, limit)
UpdateAllValuationCache(limit, ratios, faults) ==
  \E selected \in select_stocks(stocks, limit) :
     RefreshedAll(limit, selected, faults,
                  update_all_valuation_cache(financial_statements,
                                             stock_prices,
                                             stock_valuation_cache, selected,
                                             ratios, faults))

----------------------------------------------------------------------------
(* batch_collect_financials: one session for every ticker of the batch *)

\* the dict the except branch of the loop appends
batch_error(ticker) ==
  [ticker |-> ticker, status |-> "error", message |-> "exception"]

\* result.get("saved", 0) of a result counted as success
saved_of(r) == IF r.status = "success" THEN r.saved ELSE 0

\* the try block returned: the table holds what the ingestion committed
batch_returned(acc, o) ==
  [acc EXCEPT !.tbl = o.table,
              !.results = Append(@, o.result),
              !.success_count = @ + (IF o.result.status = "success" THEN 1
                                     ELSE 0),
              !.total_saved = @ + saved_of(o.result),
              !.calls = @ \o o.calls]

\* db.commit() of the ingestion raised: neither financial_service nor the
\* batch calls db.rollback(), so the session stays inactive.  The rollback
\* of the failed flush expires the Stock objects of the session; the except
\* branch reads stock.ticker, which raises out of the batch when it has to
\* be loaded again (expired) and names the ticker otherwise.
batch_commit_failed(acc, ticker, o, expired) ==
  IF expired
  THEN [acc EXCEPT !.active = FALSE, !.raised = TRUE, !.calls = @ \o o.calls]
  ELSE [acc EXCEPT !.active = FALSE,
                   !.results = Append(@, batch_error(ticker)),
                   !.calls = @ \o o.calls]

\* one iteration of `for idx, stock in enumerate(stocks, 1)`, o what
\* collect_and_save does on a usable session.  On an inactive session its
\* first statement, db.query(Stock), raises and the except branch appends
\* an error result.
batch_one(acc, ticker, o, expired) ==
  IF acc.raised THEN acc
  ELSE IF ~acc.active
  THEN [acc EXCEPT !.results = Append(@, batch_error(ticker))]
  ELSE IF o.raised THEN batch_commit_failed(acc, ticker, o, expired)
  ELSE batch_returned(acc, o)

RECURSIVE batch_loop(_, _, _, _, _, _, _, _, _)
batch_loop(acc, stks, selected, period_type, year, now, responses, expired, i) ==
  IF i > Len(selected) THEN acc
  ELSE batch_loop(
         batch_one(acc, selected[i],
                   collect_and_save(acc.tbl, stks, selected[i], period_type,
                                    year, now, responses[selected[i]]),
                   expired),
         stks, selected, period_type, year, now, responses, expired, i + 1)

\* batch_result, NoReturn when the batch was left by an exception
batch_result(period_type, year, selected, acc) ==
  [raised |-> acc.raised, table |-> acc.tbl, calls |-> acc.calls,
   result |-> IF acc.raised THEN NoReturn
              ELSE [market |-> "ALL",
                    period_type |-> period_char(period_type),
                    total_stocks |-> Len(selected),
                    success_count |-> acc.success_count,
                    total_saved |-> acc.total_saved,
                    results |-> acc.results,
                    year |-> IF period_type = "1" THEN year ELSE None]]

\* batch_collect_financials(db, "ALL", period_type, year, limit) for the rows
\* selected: [raised, table, calls, result]
batch_collect_financials(tbl, stks, selected, period_type, year, now, responses, expired) ==
  batch_result(period_type, year, selected,
               batch_loop([tbl |-> tbl, active |-> TRUE, raised |-> FALSE,
                           results |-> <<>>, success_count |-> 0,
                           total_saved |-> 0, calls |-> <<>>],
                          stks, selected, period_type, year, now, responses,
                          expired, 1))

\* annual statements whose ratio slice holds "inf" for roe_val, a value the
\* DECIMAL column refuses
RefusedSlices ==
  <<<<[stac_yymm |-> 202412, cpfn |-> RStr(<<"5", ",", "0", "0", "0">>)]>>,
    <<[stac_yymm |-> 202412, thtr_ntin |-> RStr(<<"7", "0", "0">>)]>>,
    <<[stac_yymm |-> 202412, roe_val |-> RStr(<<"i", "n", "f">>)]>>,
    <<>>, <<>>, <<>>>>

\* what the upstream answers for each ticker during one batch
AllAnnual == [t \in Tickers |-> AnnualSlices]

OneRefused ==
  [t \in Tickers |-> IF t = "000660" THEN RefusedSlices ELSE AnnualSlices]

AllQuarterly == [t \in Tickers |-> QuarterSlices]

\* <<period_type, year, now, responses, expired>>
BatchCalls ==
  {<<"0", None, InMay, AllAnnual, FALSE>>,
   <<"0", None, InMay, OneRefused, FALSE>>,
   <<"0", None, InMay, OneRefused, TRUE>>,
   <<"1", Some(2025), InNovember, AllQuarterly, FALSE>>}

\* limit arguments of a batch: None (0) and one stock
BatchLimits == {0, 1}

\* the batches made so far
batches_made ==
  Cardinality({i \in 1..Len(log) : log[i].op = "batch_collect_financials"})

Batched(period_type, year, now, limit, selected, responses, o) ==
  /\ Len(log) < MaxOps
  /\ batches_made < MaxBatches
  /\ financial_statements' = o.table
  /\ calls' = o.calls
  /\ result' = [op |-> "batch_collect_financials",
                period_type |-> period_type, year |-> year, now |-> now,
                limit |-> limit, selected |-> selected,
                responses |-> responses,
                raised |-> o.raised, returned |-> o.result]
  /\ log' = Append(log, [op |-> "batch_collect_financials", ticker |-> "",
                         period_type |-> period_char(period_type),
                         data |-> <<>>, before |-> financial_statements,
                         raised |-> o.raised])
  /\ UNCHANGED <<stock_prices, stock_valuation_cache, stocks, sessions>>

\* batch_collect_financials(db, "ALL", period_type, year, limit)
BatchCollectFinancials(period_type, year, now, limit, responses, expired) ==
  \E selected \in select_stocks(stocks, limit) :
     Batched(period_type, year, now, limit, selected, responses,
             batch_collect_financials(financial_statements, stocks, selected,
                                      period_type, year, now, responses,
                                      expired))

\* a directory of two stocks whose prices have been collected
BatchStocks == {"005930", "000660"}

InitBatch ==
  /\ financial_statements = <<>>
  /\ stock_prices = [t \in Tickers |-> IF t \in BatchStocks THEN Some(70)
                                       ELSE None]
  /\ stock_valuation_cache = [t \in Tickers |-> None]
  /\ stocks = BatchStocks
  /\ log = <<>>
  /\ result = NoResult
  /\ calls = <<>>
  /\ sessions = <<>>

\* batches and refreshes of the cache
NextBatch ==
  \/ \E c \in BatchCalls, limit \in BatchLimits :
        BatchCollectFinancials(c[1], c[2], c[3], limit, c[4], c[5])
  \/ \E limit \in 1..MaxLimit, r \in RefreshRatios, f \in RefreshFaults :
        UpdateAllValuationCache(limit, r, f)

SpecBatch == InitBatch /\ [][NextBatch]_vars

----------------------------------------------------------------------------
(* Claims about the batches *)

IsRefreshAll == result.op = "update_all_valuation_cache"

\* C13: update_all_valuation_cache with a limit selects at most `limit`
\* active stocks and calls update_valuation_cache for each of them, in
\* order, whatever the earlier refreshes returned; it does not raise,
\* total_processed is the number of stocks selected and success_count the
\* number of refreshes that returned success.
C13_RefreshAll ==
  IsRefreshAll =>
    /\ ~result.raised
    /\ Len(result.selected) <= result.limit
    /\ Len(calls) = Len(result.selected)
    /\ \A i \in 1..Len(calls) :
          /\ calls[i].call = "update_valuation_cache"
          /\ calls[i].ticker = result.selected[i]
    /\ result.returned.total_processed = Len(result.selected)
    /\ result.returned.success_count
         = Cardinality({i \in 1..Len(calls) : calls[i].status = "success"})

\* the refresh of the first ticker failed, the refresh of a later ticker
\* was attempted and returned success
C13_Witness ==
  /\ IsRefreshAll
  /\ Len(calls) >= 2
  /\ calls[1].status = "error"
  /\ \E i \in 2..Len(calls) : calls[i].status = "success"
  /\ result.returned.success_count = 1

IsBatch == result.op = "batch_collect_financials"

\* what the ingestion of the i-th ticker of the last batch does on its own,
\* on the table as it was before the batch
OwnOutcome(i) ==
  collect_and_save(Last(log).before, stocks, result.selected[i],
                   result.period_type, result.year, result.now,
                   result.responses[result.selected[i]])

RowsOf(tbl, ticker) == {tbl[r] : r \in {j \in 1..Len(tbl) : tbl[j].ticker = ticker}}

\* C14: a batch returns one result per selected ticker, in order.  A ticker
\* whose ingestion fails at the commit gets an error result with its name;
\* every other ticker gets the result, and the table the rows, that its
\* ingestion gives on its own, whether or not an earlier ticker failed.
C14_BatchIsolation ==
  IsBatch =>
    /\ ~result.raised
    /\ Len(result.returned.results) = Len(result.selected)
    /\ \A i \in 1..Len(result.selected) :
          /\ result.returned.results[i].ticker = result.selected[i]
          /\ IF OwnOutcome(i).raised
             THEN result.returned.results[i].status = "error"
             ELSE /\ result.returned.results[i] = OwnOutcome(i).result
                  /\ RowsOf(financial_statements, result.selected[i])
                       = RowsOf(OwnOutcome(i).table, result.selected[i])

----------------------------------------------------------------------------
(* Upserts of several sessions.  save_financials runs its loop (the query  *)
(* for the existing row, then setattr or db.add) and commits afterwards;   *)
(* another session can do either between the two.  A session in the middle *)
(* of an upsert is a record: id (the number of the upsert), ticker,        *)
(* period_type, data, seen (the table its query read), acc (what its loop  *)
(* made of it) and peers (the upserts of the same key it overlapped with). *)

\* the key of the first labelled record of a call
upsert_key(ticker, pchar, merged_data) ==
  <<ticker, stac_yymm_of(merged_data[1]), pchar>>

\* the sessions open on the key of a new upsert
same_key(open, ticker, pchar, merged_data) ==
  {open[i].id : i \in {j \in 1..Len(open) :
       upsert_key(open[j].ticker, open[j].period_type, open[j].data)
         = upsert_key(ticker, pchar, merged_data)}}

\* the loop of save_financials in a new session, up to db.commit()
begin_upsert(tbl, open, id, ticker, pchar, merged_data) ==
  [id |-> id, ticker |-> ticker, period_type |-> pchar, data |-> merged_data,
   seen |-> tbl,
   acc |-> save_loop([tbl |-> tbl, pending |-> <<>>, saved |-> 0],
                     ticker, pchar, merged_data, 1),
   peers |-> same_key(open, ticker, pchar, merged_data)]

\* the open sessions after upsert id has begun on a key
met_by(open, id, met) ==
  [i \in 1..Len(open) |->
     IF open[i].id \in met THEN [open[i] EXCEPT !.peers = @ \cup {id}]
     ELSE open[i]]

\* the UPDATE statements of a flush: a row the session changed is written
\* with the columns whose value differs from the one loaded, onto the row
\* as it is now
flush_updates(tbl, seen, mine) ==
  [i \in 1..Len(tbl) |->
     IF i <= Len(seen)
     THEN [tbl[i] EXCEPT !.cols =
             [c \in valid_columns |->
                IF mine[i].cols[c] # seen[i].cols[c] THEN mine[i].cols[c]
                ELSE tbl[i].cols[c]]]
     ELSE tbl[i]]

\* db.commit() of a session on the table as it is now
commit_session(tbl, stks, sess) ==
  commit(tbl,
         [tbl |-> flush_updates(tbl, sess.seen, sess.acc.tbl),
          pending |-> sess.acc.pending, saved |-> sess.acc.saved],
         stks)

\* the sequence without its i-th element
without(seq, i) == SubSeq(seq, 1, i - 1) \o SubSeq(seq, i + 1, Len(seq))

\* records of one period with different sets of fields
Fields1 ==
  <<[stac_yymm |-> 202412, cpfn |-> RStr(<<"5", "0", "0", "0">>)]>>

Fields2 ==
  <<[stac_yymm |-> 202412, thtr_ntin |-> RStr(<<"7", "0", "0">>), roe_val |-> RStr(<<"1", "2", ".", "5">>)]>>

Fields3 ==
  <<[stac_yymm |-> 202412, cpfn |-> RStr(<<"6", "0", "0", "0">>), sale_account |-> RStr(<<"1", "0", "0", "0">>)]>>

UpsertCalls ==
  {<<"005930", "0", Fields1>>, <<"005930", "0", Fields2>>,
   <<"005930", "0", Fields3>>, <<"000660", "0", Fields1>>}

\* upserts begun so far
upserts_begun == Len(log) + Len(sessions)

\* a session runs the loop of save_financials(db, ticker, period_type,
\* merged_data)
BeginUpsert(ticker, period_type, merged_data) ==
  /\ upserts_begun < MaxOps
  /\ Len(sessions) < MaxSessions
  /\ sessions' = Append(met_by(sessions, upserts_begun + 1,
                               same_key(sessions, ticker,
                                        period_char(period_type),
                                        merged_data)),
                        begin_upsert(financial_statements, sessions,
                                     upserts_begun + 1, ticker,
                                     period_char(period_type), merged_data))
  /\ UNCHANGED <<financial_statements, stock_prices, stock_valuation_cache,
                 stocks, log, result, calls>>

Committed(i, r) ==
  /\ financial_statements' = r.table
  /\ result' = [op |-> "save_financials", raised |-> r.raised,
                saved |-> r.saved]
  /\ log' = Append(log, [op |-> "save_financials",
                         ticker |-> sessions[i].ticker,
                         period_type |-> sessions[i].period_type,
                         data |-> sessions[i].data,
                         before |-> financial_statements,
                         raised |-> r.raised, id |-> sessions[i].id,
                         peers |-> sessions[i].peers])
  /\ sessions' = without(sessions, i)
  /\ UNCHANGED <<stock_prices, stock_valuation_cache, stocks, calls>>

\* the i-th open session reaches db.commit()
CommitUpsert(i) ==
  /\ i \in 1..Len(sessions)
  /\ Committed(i, commit_session(financial_statements, stocks, sessions[i]))

NextConc ==
  \/ \E c \in UpsertCalls : BeginUpsert(c[1], c[2], c[3])
  \/ \E i \in 1..MaxSessions : CommitUpsert(i)

SpecConc == Init /\ [][NextConc]_vars

----------------------------------------------------------------------------
(* Claims about concurrent upserts *)

\* the upserts that finished, overlapped with the last one on its key and
\* held another set of fields
PeersOfLast ==
  {i \in 1..(Len(log) - 1) :
     /\ log[i].id \in Last(log).peers
     /\ DataKeys(log[i].data[1]) # DataKeys(Last(log).data[1])}

\* the values the upsert of a log entry offers for a column
Offered(entry, c) ==
  IF c \in DataKeys(entry.data[1])
     /\ convert_value(c, entry.data[1][c]) # None
  THEN {convert_value(c, entry.data[1][c])}
  ELSE {}

\* the rows of the key of the last upsert
KeyRowsOfLast ==
  {r \in 1..Len(financial_statements) :
     /\ financial_statements[r].ticker = Last(log).ticker
     /\ financial_statements[r].stac_yymm
          = stac_yymm_of(Last(log).data[1])
     /\ financial_statements[r].period_type = Last(log).period_type}

\* C15: when upserts of one key overlap, none of them fails because of
\* another and after the last of them the table holds exactly one row for
\* the key, with a value one of them offered in every column any of them
\* offered.
C15_NoLostUpdate ==
  (log # <<>> /\ PeersOfLast # {}) =>
    /\ ~Last(log).raised
    /\ \A i \in PeersOfLast : ~log[i].raised
    /\ Cardinality(KeyRowsOfLast) = 1
    /\ \A r \in KeyRowsOfLast : \A c \in valid_columns :
          \A i \in PeersOfLast \cup {Len(log)} :
             Offered(log[i], c) # {} =>
                financial_statements[r].cols[c]
                  \in UNION {Offered(log[j], c) :
                               j \in PeersOfLast \cup {Len(log)}}

----------------------------------------------------------------------------
(* The core operations side by side: annual and quarterly saves, prices,   *)
(* the TTM calculation, the cache refresh and the screen                   *)

CoreAnnualCalls ==
  {<<"005930", "0", Annual1>>, <<"005930", "0", Annual5>>,
   <<"000660", "0", Annual3>>}

\* 2025 with the second quarter missing
Year2025NoQ2 ==
  <<[stac_yymm |-> 202503, cpfn |-> RStr(<<"5", ",", "0", "0", "0">>), sale_account |-> RStr(<<"1", "0", "0", "0">>), thtr_ntin |-> RStr(<<"5", "0", "0">>)],
    [stac_yymm |-> 202509, cpfn |-> RStr(<<"5", ",", "0", "0", "0">>), sale_account |-> RStr(<<"3", "9", "0", "0">>), thtr_ntin |-> RStr(<<"1", "9", "5", "0">>)],
    [stac_yymm |-> 202512, cpfn |-> RStr(<<"5", ",", "0", "0", "0">>), sale_account |-> RStr(<<"5", "0", "0", "0">>), thtr_ntin |-> RStr(<<"2", "5", "0", "0">>)]>>

\* 2025, three quarters in which values fail to convert or are missing
Year2025Partial ==
  <<[stac_yymm |-> 202503, sale_account |-> RStr(<<"a", "b", "c">>), thtr_ntin |-> RStr(<<"5", "0", "0">>)],
    [stac_yymm |-> 202506, sale_account |-> RStr(<<"2", ",", "5", "0", "0">>), bsop_prti |-> RStr(<<"3", "0", "0">>), thtr_ntin |-> RStr(<<"n", "a", "n">>)],
    [stac_yymm |-> 202509, sale_account |-> RStr(<<"3", "9", "0", "0">>), bsop_prti |-> RStr(<<>>), thtr_ntin |-> RStr(<<"1", "9", "5", "0">>)]>>

CoreQuarterlyCalls ==
  {<<"005930", Year2025>>, <<"005930", Year2025Loss>>,
   <<"005930", Year2025NoQ2>>, <<"005930", Year2025Partial>>}

NextCore ==
  \/ \E c \in CoreAnnualCalls : SaveFinancials(c[1], c[2], c[3])
  \/ \E c \in CoreQuarterlyCalls : SaveQuarterlyActuals(c[1], c[2])
  \/ SavePrice("005930", 70)
  \/ \E d \in {None, Some(202509)} : CalculateTTM("005930", d)
  \/ \E r \in RefreshRatios : UpdateValuationCache("005930", r)
  \/ \E n \in 1..MaxLimit : ScreenStocks(NoFilter, n)

SpecCore == Init /\ [][NextCore]_vars

\* the (ticker, stac_yymm, period_type) keys of a table
KeysOf(tbl) ==
  {<<tbl[i].ticker, tbl[i].stac_yymm, tbl[i].period_type>> :
     i \in 1..Len(tbl)}

\* C21: no step of an annual save, a quarterly save, a TTM calculation, a
\* cache refresh or a screen removes a row of financial_statements: the
\* set of stored (ticker, stac_yymm, period_type) keys only grows.
C21_NeverDeleted ==
  [][KeysOf(financial_statements) \subseteq KeysOf(financial_statements')]_vars

\* a quarterly save over the rows of an earlier one: the rows were revised
\* in place and every key is still there
C21_Witness ==
  /\ log # <<>>
  /\ Last(log).op = "save_quarterly_actuals"
  /\ ~Last(log).raised
  /\ Len(Last(log).before) >= 3
  /\ financial_statements # Last(log).before
  /\ KeysOf(financial_statements) = KeysOf(Last(log).before)

----------------------------------------------------------------------------
(* One fetch: KISAPIClient._request and FinancialService._fetch_data.     *)
(* result holds the fetch in progress (pc, retry_count), calls the HTTP   *)
(* attempts it has made.                                                   *)

\* settings.API_RETRY_COUNT
API_RETRY_COUNT == 3

\* what one HTTP attempt does: no answer within timeout=30.0, a 4xx/5xx
\* status (raise_for_status), a body that is not JSON, an answer with
\* rt_cd "1", an answer with rt_cd "0" and an output list
AttemptOutcomes == {"timeout", "status_error", "bad_json", "error_code", "output"}

\* the attempt raises httpx.HTTPError
http_error(outcome) == outcome \in {"timeout", "status_error"}

\* mutant: <= in place of <
request_step_lenient(outcome, retry_count) ==
  IF http_error(outcome)
  THEN IF retry_count <= API_RETRY_COUNT THEN "retry" ELSE "raise"
  ELSE IF outcome = "bad_json" THEN "raise" ELSE "return"

\* what _request does after an attempt: call itself with retry_count + 1,
\* raise, or return the answer
request_step(outcome, retry_count) ==
  IF http_error(outcome)
  THEN IF retry_count < API_RETRY_COUNT THEN "retry" ELSE "raise"
  ELSE IF outcome = "bad_json" THEN "raise" ELSE "return"

\* the answer _request gives _fetch_data
response_of(outcome, ended, output) ==
  [raised |-> ended = "raise",
   rt_cd |-> IF outcome = "output" THEN "0" ELSE "1",
   output |-> output]

\* mutant: the return code is not looked at
fetch_data_unchecked(response) ==
  IF response.raised THEN <<>> ELSE response.output

\* _fetch_data: [] when _request raised or rt_cd is not "0", the output
\* list otherwise
fetch_data(response) ==
  IF response.raised \/ response.rt_cd # "0" THEN <<>> ELSE response.output

\* the output list of an answer
FetchOutput == <<[stac_yymm |-> 202412, cpfn |-> RStr(<<"5", ",", "0", "0", "0">>)]>>

Fetching == result.op = "fetch_data" /\ result.pc = "requesting"

\* a collect_* wrapper calls _fetch_data
StartFetch(name) ==
  /\ ~Fetching
  /\ Len(log) < MaxOps
  /\ result' = [op |-> "fetch_data", call |-> name, pc |-> "requesting",
                retry_count |-> 0, returned |-> <<>>]
  /\ calls' = <<>>
  /\ UNCHANGED <<financial_statements, stock_prices, stock_valuation_cache,
                 stocks, log, sessions>>

\* the fetch after an attempt that ended the request
fetch_returned(outcome, ended) ==
  /\ result' = [result EXCEPT !.pc = "returned",
                              !.returned = fetch_data(response_of(outcome, ended, FetchOutput))]
  /\ log' = Append(log, [op |-> "fetch_data", ticker |-> "",
                         period_type |-> "", data |-> <<>>,
                         before |-> financial_statements,
                         raised |-> FALSE])

\* one HTTP attempt of the fetch in progress
Attempt(outcome) ==
  /\ Fetching
  /\ calls' = Append(calls, outcome)
  /\ IF request_step(outcome, result.retry_count) = "retry"
     THEN /\ result' = [result EXCEPT !.retry_count = @ + 1]
          /\ UNCHANGED log
     ELSE fetch_returned(outcome, request_step(outcome, result.retry_count))
  /\ UNCHANGED <<financial_statements, stock_prices, stock_valuation_cache,
                 stocks, sessions>>

AnyAttempt == \E outcome \in AttemptOutcomes : Attempt(outcome)

NextFetch ==
  \/ \E n \in 1..6 : StartFetch(FetchNames[n])
  \/ AnyAttempt

\* every attempt carries timeout=30.0 and the waits between attempts are
\* finite sleeps, so a fetch in progress always makes its next attempt
SpecFetch == Init /\ [][NextFetch]_vars /\ WF_vars(AnyAttempt)

\* C28: a fetch makes at most API_RETRY_COUNT + 1 attempts; when every
\* attempt failed it returns the empty list; and a fetch in progress
\* always comes to its return.
C28_FetchTerminates ==
  /\ [](result.op = "fetch_data" =>
          /\ Len(calls) <= API_RETRY_COUNT + 1
          /\ (result.pc = "returned"
              /\ \A i \in 1..Len(calls) : calls[i] # "output")
               => result.returned = <<>>)
  /\ (Fetching ~> ~Fetching)

\* a fetch whose API_RETRY_COUNT + 1 attempts all raised httpx.HTTPError
\* and which returned the empty list
C28_Witness ==
  /\ result.op = "fetch_data"
  /\ result.pc = "returned"
  /\ Len(calls) = API_RETRY_COUNT + 1
  /\ \A i \in 1..Len(calls) : http_error(calls[i])
  /\ result.returned = <<>>

----------------------------------------------------------------------------
(* Annual ingestion from the answers of the upstream: each of the six     *)
(* fetches ends with an answer of _request, _fetch_data makes a list of   *)
(* it, and collect_and_save goes on from the six lists.                   *)

\* _request returned an answer with rt_cd "0" and this output list
Answered(output) == response_of("output", "return", output)

\* _request returned an answer with a non-zero rt_cd
ErrorCode(output) == response_of("error_code", "return", output)

\* _request raised after its last attempt
Raised == response_of("timeout", "raise", <<>>)

\* every fetch answers
AllAnswered == [n \in 1..6 |-> Answered(AnnualSlices[n])]

\* the income statement and the other-ratios fetch raise, the ratio fetch
\* answers with an error code
PartlyFailed ==
  <<Answered(AnnualSlices[1]), Raised, ErrorCode(AnnualSlices[3]),
    Answered(<<>>), Raised, Answered(AnnualSlices[6])>>

\* only the income statement fetch answers
OneAnswered ==
  <<Raised, Answered(AnnualSlices[2]), ErrorCode(<<>>), Raised, Raised,
    ErrorCode(<<>>)>>

\* every fetch fails
AllFailed ==
  <<Raised, ErrorCode(<<>>), Raised, ErrorCode(AnnualSlices[3]), Raised,
    Raised>>

\* the one record that is answered carries no stac_yymm
Unlabelled ==
  <<Raised, Answered(<<>>),
    Answered(<<[roe_val |-> RStr(<<"9", ".", "9">>)]>>),
    Answered(<<>>), ErrorCode(<<>>), Answered(<<>>)>>

UpstreamAnswers ==
  {AllAnswered, PartlyFailed, OneAnswered, AllFailed, Unlabelled}

\* the six lists collect_and_save awaits
slices_of(answers) == [n \in 1..Len(answers) |-> fetch_data(answers[n])]

\* the effect of an annual ingestion with outcome o
Ingested(ticker, answers, o) ==
  /\ Len(log) < MaxOps
  /\ financial_statements' = o.table
  /\ result' = [op |-> "collect_from_upstream", ticker |-> ticker,
                answers |-> answers, raised |-> o.raised,
                returned |-> o.result]
  /\ calls' = o.calls
  /\ log' = Append(log, [op |-> "collect_and_save", ticker |-> ticker,
                         period_type |-> "Y", data |-> slices_of(answers),
                         before |-> financial_statements,
                         raised |-> o.raised])
  /\ UNCHANGED <<stock_prices, stock_valuation_cache, stocks, sessions>>

\* collect_and_save(db, ticker, "0") against an upstream that gives answers
CollectFromUpstream(ticker, answers) ==
  Ingested(ticker, answers,
           collect_and_save(financial_statements, stocks, ticker, "0", None,
                            InMay, slices_of(answers)))

NextUpstream ==
  \E t \in {"005930", "000660"}, answers \in UpstreamAnswers :
     CollectFromUpstream(t, answers)

SpecUpstream == Init /\ [][NextUpstream]_vars

IsUpstream == result.op = "collect_from_upstream" /\ result.ticker \in stocks

\* the fetches of the last ingestion that failed
FailedFetches ==
  {n \in 1..6 : result.answers[n].raised \/ result.answers[n].rt_cd # "0"}

\* the output lists of the fetches that did not fail
Available ==
  [n \in 1..6 |-> IF n \in FailedFetches THEN <<>>
                  ELSE result.answers[n].output]

\* C22 as stated: an annual ingestion is not aborted by failed fetches and
\* reports no_data only when all six slices are empty.
C22_NoDataOnlyAllEmpty ==
  IsUpstream =>
    /\ ~result.raised
    /\ result.returned.status = "no_data" =>
         \A n \in 1..6 : Available[n] = <<>>

\* C22 amended: an annual ingestion is not aborted by failed fetches; it
\* reports no_data exactly when no fetch that answered holds a record with
\* a period label, and otherwise it succeeds and every period of the
\* answered slices is saved.
C22_PartialFailure ==
  IsUpstream =>
    /\ ~result.raised
    /\ IF LabelsIn(Available) = {}
       THEN /\ result.returned.status = "no_data"
            /\ result.returned.saved = 0
            /\ financial_statements = Last(log).before
       ELSE /\ result.returned.status = "success"
            /\ result.returned.periods = Cardinality(LabelsIn(Available))
            /\ result.returned.saved = Cardinality(LabelsIn(Available))
            /\ \A l \in LabelsIn(Available) :
                  <<result.ticker, l, "Y">> \in KeysOf(financial_statements)

\* an ingestion in which some but not all fetches failed, among them one
\* that raised and one with an error code, and two periods were saved
C22_Witness ==
  /\ IsUpstream
  /\ \E n \in FailedFetches : result.answers[n].raised
  /\ \E n \in FailedFetches : ~result.answers[n].raised
  /\ LabelsIn(Available) # {}
  /\ result.returned.status = "success"
  /\ result.returned.saved = 2

----------------------------------------------------------------------------
(* Properties of the quarterly actuals: fields, gaps, failures (C23-C30)  *)

\* the columns of the model that are not cumulative flows: paid-in capital
\* (balance sheet) and return on equity (ratio)
StockFields == {"cpfn", "roe_val"}

\* the last call was a quarterly save that committed
QuarterlySaved ==
  /\ log # <<>>
  /\ Last(log).op = "save_quarterly_actuals"
  /\ ~Last(log).raised

\* C23: after a quarterly save, for every quarter of the data (Q2 to Q4
\* included) and every field that is not a cumulative flow, the stored
\* value is the converted current value, with nothing subtracted.
C23_NoSubtraction ==
  QuarterlySaved =>
    \A i \in 1..Len(Last(log).data) : \A f \in StockFields :
       (/\ stac_yymm_of(Last(log).data[i]) # NoLabel
        /\ ConvOf(Last(log).data[i], f) # None)
       => StoredValue(Last(log).ticker, stac_yymm_of(Last(log).data[i]),
                      "Q", f)
            = ConvOf(Last(log).data[i], f)

\* a save of four quarters whose second and fourth quarter hold a paid-in
\* capital that differs from the previous quarter's, stored as reported
C23_Witness ==
  /\ QuarterlySaved
  /\ FourQuarters(Last(log).data)
  /\ Reported(Last(log).data, "cpfn")
  /\ \A i \in {2, 4} :
        /\ ConvOf(Last(log).data[i], "cpfn")
             # ConvOf(Last(log).data[i - 1], "cpfn")
        /\ ConvOf(Last(log).data[i - 1], "cpfn")[1] # 0
        /\ StoredValue(Last(log).ticker, stac_yymm_of(Last(log).data[i]),
                       "Q", "cpfn")
             = ConvOf(Last(log).data[i], "cpfn")

\* the data of the last call holds a gap before its item i: the item
\* before it closes a quarter of the same year two or more quarters earlier
GapBefore(data, i) ==
  /\ i \in 2..Len(data)
  /\ stac_yymm_of(data[i]) # NoLabel
  /\ stac_yymm_of(data[i - 1]) # NoLabel
  /\ stac_yymm_of(data[i]) \div 100 = stac_yymm_of(data[i - 1]) \div 100
  /\ QuarterOf(stac_yymm_of(data[i])) - QuarterOf(stac_yymm_of(data[i - 1])) >= 2

\* C24: when a quarter is missing before a quarter of the year's data, the
\* stored actual of that quarter is its cumulative value minus the
\* cumulative value of the nearest earlier quarter present.
C24_GapSubtractsNearest ==
  QuarterlySaved =>
    \A i \in 1..Len(Last(log).data) : \A f \in cumulative_fields :
       (/\ GapBefore(Last(log).data, i)
        /\ ConvOf(Last(log).data[i], f) # None
        /\ ConvOf(Last(log).data[i - 1], f) # None)
       => StoredValue(Last(log).ticker, stac_yymm_of(Last(log).data[i]),
                      "Q", f)
            = Some(ConvOf(Last(log).data[i], f)[1]
                     - ConvOf(Last(log).data[i - 1], f)[1])

\* a save of Q1, Q3 and Q4 that stored a third-quarter net income spanning
\* two quarters
C24_Witness ==
  /\ QuarterlySaved
  /\ Len(Last(log).data) = 3
  /\ GapBefore(Last(log).data, 2)
  /\ QuarterOf(stac_yymm_of(Last(log).data[1])) = 1
  /\ QuarterOf(stac_yymm_of(Last(log).data[2])) = 3
  /\ ConvOf(Last(log).data[1], "thtr_ntin") # None
  /\ ConvOf(Last(log).data[1], "thtr_ntin")[1] # 0
  /\ StoredValue(Last(log).ticker, stac_yymm_of(Last(log).data[2]), "Q",
                 "thtr_ntin")
       = Some(ConvOf(Last(log).data[2], "thtr_ntin")[1]
                - ConvOf(Last(log).data[1], "thtr_ntin")[1])

\* the value of column c in the row of the key before the last call, None
\* when there was no such row
ValueBefore(ticker, stac_yymm, period_type, c) ==
  LET rows == RowsWithKey(Last(log).before, ticker, stac_yymm, period_type)
  IN  IF Cardinality(rows) = 1
      THEN Last(log).before[CHOOSE i \in rows : TRUE].cols[c]
      ELSE None

\* item i of data offers a value for the cumulative field f, and either its
\* conversion fails, or the quarter before it lacks f or offers a value
\* whose conversion fails
NoDifference(data, i, f) ==
  /\ i \in 2..Len(data)
  /\ f \in DOMAIN data[i]
  /\ data[i][f].k # "none"
  /\ \/ ConvOf(data[i], f) = None
     \/ ConvOf(data[i - 1], f) = None

\* C25: for a cumulative field of a quarter that has a previous quarter,
\* when the current or the previous value fails to convert, or the previous
\* quarter lacks the field, what is written is the converted current value
\* alone: the stored value is that value, and where it is None the column
\* holds what it held before (null in a new row), never a zero.
C25_FallbackToCurrent ==
  QuarterlySaved =>
    \A i \in 1..Len(Last(log).data) : \A f \in cumulative_fields :
       NoDifference(Last(log).data, i, f) =>
         StoredValue(Last(log).ticker, stac_yymm_of(Last(log).data[i]),
                     "Q", f)
           = IF ConvOf(Last(log).data[i], f) # None
             THEN ConvOf(Last(log).data[i], f)
             ELSE ValueBefore(Last(log).ticker,
                              stac_yymm_of(Last(log).data[i]), "Q", f)

\* a first save of three quarters: the second stored its sales as reported
\* after a first quarter whose sales fail to convert, its operating profit
\* as reported after a quarter without one, and null for a net income that
\* fails to convert; the third stored its net income as reported
C25_Witness ==
  /\ QuarterlySaved
  /\ Last(log).before = <<>>
  /\ Len(Last(log).data) = 3
  /\ "sale_account" \in DOMAIN Last(log).data[1]
  /\ NoDifference(Last(log).data, 2, "sale_account")
  /\ "bsop_prti" \notin DOMAIN Last(log).data[1]
  /\ NoDifference(Last(log).data, 2, "bsop_prti")
  /\ NoDifference(Last(log).data, 2, "thtr_ntin")
  /\ NoDifference(Last(log).data, 3, "thtr_ntin")
  /\ StoredValue(Last(log).ticker, 202506, "Q", "sale_account") = Some(2500)
  /\ StoredValue(Last(log).ticker, 202506, "Q", "bsop_prti") = Some(300)
  /\ StoredValue(Last(log).ticker, 202506, "Q", "thtr_ntin") = None
  /\ StoredValue(Last(log).ticker, 202509, "Q", "thtr_ntin") = Some(1950)

\* the last call was a quarterly ingestion of a known ticker that returned
IsQuarterlyCollect ==
  /\ IsCollect
  /\ result.period_type = "1"
  /\ result.ticker \in stocks
  /\ ~result.raised

\* C26: a quarterly ingestion for (ticker, year) adds or changes only
\* QUARTERLY rows of that ticker whose label lies in that year, so every
\* ANNUAL row, every row of another year and every row of another ticker is
\* as before; when the upstream holds no period of that year the result is
\* no_data with saved = 0 and the table is as before.
C26_OnlyThatYear ==
  IsQuarterlyCollect =>
    /\ \A i \in Written :
          /\ financial_statements[i].ticker = result.ticker
          /\ financial_statements[i].period_type = "Q"
          /\ financial_statements[i].stac_yymm \div 100 = result.year
    /\ \A i \in 1..Len(Last(log).before) :
          /\ financial_statements[i].ticker = Last(log).before[i].ticker
          /\ financial_statements[i].stac_yymm = Last(log).before[i].stac_yymm
          /\ financial_statements[i].period_type
               = Last(log).before[i].period_type
    /\ (\A l \in LabelsIn(Last(log).data) : l \div 100 # result.year) =>
          /\ result.returned.status = "no_data"
          /\ result.returned.saved = 0
          /\ financial_statements = Last(log).before

\* a quarterly ingestion for 2024 that wrote rows into a table holding
\* annual rows of the ticker and of another ticker and quarterly rows of
\* 2025, from an upstream that also offers periods of 2025
C26_Witness ==
  /\ IsQuarterlyCollect
  /\ result.year = 2024
  /\ Written # {}
  /\ \E l \in LabelsIn(Last(log).data) : l \div 100 = 2025
  /\ \E i \in 1..Len(Last(log).before) :
        /\ Last(log).before[i].period_type = "Y"
        /\ Last(log).before[i].ticker = result.ticker
  /\ \E i \in 1..Len(Last(log).before) :
        /\ Last(log).before[i].period_type = "Q"
        /\ Last(log).before[i].stac_yymm \div 100 = 2025

\* a quarterly ingestion for a year the upstream holds no period of, into
\* a table with rows
C26_NoDataReached ==
  /\ IsQuarterlyCollect
  /\ LabelsIn(Last(log).data) # {}
  /\ \A l \in LabelsIn(Last(log).data) : l \div 100 # result.year
  /\ financial_statements # <<>>

\* the places at which label l occurs in a record that holds field k
Supplying(sources, l, k) ==
  {p \in Occurrences(sources, l) : k \in DOMAIN sources[p[1]][p[2]]}

\* the last of a set of places: the latest slice, and in it the latest item
LastPlace(places) ==
  CHOOSE p \in places : \A q \in places :
     q[1] < p[1] \/ (q[1] = p[1] /\ q[2] <= p[2])

\* the fields the records with label l hold
FieldsOf(sources, l) ==
  UNION {DOMAIN sources[p[1]][p[2]] : p \in Occurrences(sources, l)}

\* C27: each record of the merge output holds exactly the fields of the
\* input items with its label, each field with the value of the last slice
\* that supplies it, and the records are in descending order of label.
C27_LastSliceWins ==
  IsMerge =>
    /\ \A i \in 1..Len(result.merged.sorted_data) :
          LET r == result.merged.sorted_data[i]
          IN  /\ DOMAIN r = FieldsOf(result.sources, r.stac_yymm)
              /\ \A k \in DOMAIN r :
                    LET p == LastPlace(Supplying(result.sources,
                                                 r.stac_yymm, k))
                    IN  r[k] = result.sources[p[1]][p[2]][k]
    /\ \A i \in 1..(Len(result.merged.sorted_data) - 1) :
          result.merged.sorted_data[i].stac_yymm
            > result.merged.sorted_data[i + 1].stac_yymm

\* a merge of two periods in which a field of one period comes from two
\* slices with different values and the output holds the later one
C27_Witness ==
  /\ IsMerge
  /\ Len(result.merged.sorted_data) >= 2
  /\ \E i \in 1..Len(result.merged.sorted_data) :
        \E k \in DOMAIN result.merged.sorted_data[i] \ {"stac_yymm"} :
           \E p, q \in Supplying(result.sources,
                                 result.merged.sorted_data[i].stac_yymm, k) :
              /\ p[1] < q[1]
              /\ result.sources[p[1]][p[2]][k] # result.sources[q[1]][q[2]][k]
              /\ result.merged.sorted_data[i][k]
                   = result.sources[q[1]][q[2]][k]

\* the table the last quarterly ingestion would leave if it ran once more
\* against the same upstream answer
RunAgain ==
  collect_and_save(financial_statements, stocks, result.ticker, "1",
                   Some(result.year), result.now, Last(log).data)

\* C29: after a quarterly ingestion, running it again for the same ticker
\* and year against the same upstream data leaves every stored row with
\* the field values it has, and returns the same result.
C29_Idempotent ==
  IsQuarterlyCollect =>
    /\ ~RunAgain.raised
    /\ RunAgain.table = financial_statements
    /\ RunAgain.result = result.returned

\* a quarterly ingestion that stored a second-quarter net income different
\* from the cumulative value the upstream reports for it
C29_Witness ==
  /\ IsQuarterlyCollect
  /\ result.returned.status = "success"
  /\ result.returned.saved >= 2
  /\ StoredValue(result.ticker, 202503, "Q", "thtr_ntin") = Some(500)
  /\ StoredValue(result.ticker, 202506, "Q", "thtr_ntin") = Some(700)

----------------------------------------------------------------------------
(* Quarterly saves in which the processing of a quarter fails *)

\* 2025 with "inf" for the sales of the second quarter
Year2025FailQ2 ==
  <<[stac_yymm |-> 202503, sale_account |-> RStr(<<"1", "0", "0", "0">>), thtr_ntin |-> RStr(<<"5", "0", "0">>)],
    [stac_yymm |-> 202506, sale_account |-> RStr(<<"i", "n", "f">>), thtr_ntin |-> RStr(<<"1", ",", "2", "0", "0">>)],
    [stac_yymm |-> 202509, sale_account |-> RStr(<<"3", "9", "0", "0">>), thtr_ntin |-> RStr(<<"1", "9", "5", "0">>)],
    [stac_yymm |-> 202512, sale_account |-> RStr(<<"5", "0", "0", "0">>), thtr_ntin |-> RStr(<<"2", "5", "0", "0">>)]>>

\* 2025 with "-inf" for the net income of the first quarter
Year2025FailQ1 ==
  <<[stac_yymm |-> 202503, sale_account |-> RStr(<<"1", "0", "0", "0">>), thtr_ntin |-> RStr(<<"-", "i", "n", "f">>)],
    [stac_yymm |-> 202506, sale_account |-> RStr(<<"2", ",", "5", "0", "0">>), thtr_ntin |-> RStr(<<"1", ",", "2", "0", "0">>)]>>

\* 2025 with "inf" for the paid-in capital of the second and third quarter
Year2025FailQ2Q3 ==
  <<[stac_yymm |-> 202503, cpfn |-> RStr(<<"5", "0", "0", "0">>), thtr_ntin |-> RStr(<<"5", "0", "0">>)],
    [stac_yymm |-> 202506, cpfn |-> RStr(<<"i", "n", "f">>), thtr_ntin |-> RStr(<<"1", ",", "2", "0", "0">>)],
    [stac_yymm |-> 202509, cpfn |-> RStr(<<"i", "n", "f">>), thtr_ntin |-> RStr(<<"1", "9", "5", "0">>)],
    [stac_yymm |-> 202512, cpfn |-> RStr(<<"5", "0", "0", "0">>), thtr_ntin |-> RStr(<<"2", "5", "0", "0">>)]>>

\* quarterly saves: <<ticker, year_data>>
FailingCalls ==
  {<<"005930", Year2025>>, <<"005930", Year2025FailQ2>>,
   <<"005930", Year2025FailQ1>>, <<"005930", Year2025FailQ2Q3>>,
   <<"000660", Year2025FailQ2>>, <<"005930", Year2024Q4>>}

NextQuarterFail ==
  \E c \in FailingCalls : SaveQuarterlyActuals(c[1], c[2])

SpecQuarterFail == Init /\ [][NextQuarterFail]_vars

\* the processing of item i of data fails: a value of it raises in
\* _convert_value
Fails(data, i) ==
  \E key \in DataKeys(data[i]) :
     convert_value(key, data[i][key]) = OverflowError

\* the items of data that are processed to the end
Processed(data) ==
  {i \in 1..Len(data) : stac_yymm_of(data[i]) # NoLabel /\ ~Fails(data, i)}

\* the last item before i that was processed to the end, 0 when none
LastProcessed(data, i) ==
  IF \E j \in Processed(data) : j < i
  THEN CHOOSE j \in Processed(data) :
         j < i /\ \A k \in Processed(data) : k < i => k <= j
  ELSE 0

\* what the save stores for the cumulative field f of the processed item i
\* when the subtraction is made against item j (no subtraction for j = 0)
Against(data, i, j, f) ==
  IF j # 0 /\ ConvOf(data[j], f) # None
  THEN Some(ConvOf(data[i], f)[1] - ConvOf(data[j], f)[1])
  ELSE ConvOf(data[i], f)

\* C30: in a quarterly save the returned total counts the quarters that
\* were processed without an exception; a quarter whose processing failed
\* leaves its row as it was; and every processed quarter is subtracted
\* against the last quarter before it that was processed successfully.
C30_CursorAfterSuccess ==
  QuarterlySaved =>
    /\ result.saved = Cardinality(Processed(Last(log).data))
    /\ \A i \in 1..Len(Last(log).data) :
          Fails(Last(log).data, i) =>
            \A c \in valid_columns :
               StoredValue(Last(log).ticker,
                           stac_yymm_of(Last(log).data[i]), "Q", c)
                 = ValueBefore(Last(log).ticker,
                               stac_yymm_of(Last(log).data[i]), "Q", c)
    /\ \A i \in Processed(Last(log).data) : \A f \in cumulative_fields :
          ConvOf(Last(log).data[i], f) # None =>
            StoredValue(Last(log).ticker, stac_yymm_of(Last(log).data[i]),
                        "Q", f)
              = Against(Last(log).data, i,
                        LastProcessed(Last(log).data, i), f)

\* a save of four quarters whose second quarter failed: three quarters
\* counted, no row for the second, and a third-quarter net income reduced
\* by the first quarter's value
C30_Witness ==
  /\ QuarterlySaved
  /\ Len(Last(log).data) = 4
  /\ Fails(Last(log).data, 2)
  /\ Processed(Last(log).data) = {1, 3, 4}
  /\ result.saved = 3
  /\ RowsWithKey(financial_statements, Last(log).ticker, 202506, "Q") = {}
  /\ ConvOf(Last(log).data[2], "thtr_ntin") = Some(1200)
  /\ StoredValue(Last(log).ticker, 202509, "Q", "thtr_ntin") = Some(1450)

====
